---- MODULE Spec2Model ----
(***************************************************************************)
(* Authorship tracking engine of git-ai: checkpoints, the attribution      *)
(* tracker, the post-commit projection and the working-log hand-off.       *)
(*                                                                         *)
(* A file's content is a sequence of lines, every line ending in a         *)
(* newline.  A line is identified by its text; the empty text is the empty *)
(* line "\n".  Byte offsets are 0-based and half-open, line numbers are    *)
(* 1-based, as in the source.                                              *)
(***************************************************************************)
EXTENDS Integers, Sequences, FiniteSets, TLC

\* ------------------------------------------------------------------ bounds
MaxLines == 2          \* lines of the file "f"
MaxLinesG == 1         \* lines of the file "g"
MaxEdits == 2          \* edits of the working tree in one run
MaxCheckpoints == 1    \* explicit `checkpoint` commands in one run of Spec
MaxCommits == 2        \* `git commit` invocations in one run of Spec
MaxCheckpointsSplit == 2   \* explicit `checkpoint` commands in one run of SpecSplit
MaxCommitsSplit == 1       \* `git commit` invocations in one run of SpecSplit
MaxTrackerSteps == 2   \* successive checkpoints of one file in SpecTracker
MaxEditsCheckpoint == 3    \* edits and conflicts in one run of SpecCheckpoint
MaxCheckpointRuns == 2     \* `checkpoint` commands in one run of SpecCheckpoint
MaxAppends == 202          \* calls of append_event_to_file in one run of SpecRewriteLog
MaxVariedAppends == 1      \* the first calls, whose event is of any variant
MaxFileLines == 1          \* lines of a short rewrite log found at the start
MaxRaceEvents == 2         \* events of the rewrite log that two processes append to
MaxRefCommits == 2         \* commits the named ref may point at before Repository::commit
MaxOtherMoves == 2         \* updates of the named ref by other processes
MaxRebaseCommits == 2      \* commits of the branch that is rebased
MaxAppended == 2           \* lines one commit of the branch adds
MaxOntoLines == 1          \* lines the commits rebased onto add to the same file
MaxParentCheckpoints == 2  \* checkpoints of the parent's working log in one post_commit
MaxSignals == 2            \* signals delivered to the wrapper during one proxy_to_git
MaxDiffFiles == 2          \* files in one diff
MaxHunks == 2              \* hunks of one file in one diff
MaxHunkStart == 3          \* first new-side line of a hunk
MaxHunkCount == 2          \* new-side lines of a hunk

\* ------------------------------------------------------------- vocabulary
LineText == {"", "a"}
Files == {"f", "g"}
FileOrder == <<"f", "g">>
Human == "human"
AiAuthors == {"ai1", "ai2"}
Authors == {Human} \cup AiAuthors
AuthorOrder == <<"human", "ai1", "ai2">>
\* The authors of explicit checkpoints in runs of the repository.
RunAuthors == {Human, "ai1"}
Initial == 0           \* the storage key "initial": no commit yet

Max2(x, y) == IF x >= y THEN x ELSE y
Min2(x, y) == IF x <= y THEN x ELSE y

RECURSIVE SeqsUpTo(_)
SeqsUpTo(n) ==
    IF n = 0 THEN {<<>>}
    ELSE LET S == SeqsUpTo(n - 1)
         IN  S \cup {Append(s, t) : s \in {x \in S : Len(x) = n - 1}, t \in LineText}

Contents == SeqsUpTo(MaxLines)
ContentsG == {c \in SeqsUpTo(MaxLinesG) : \A i \in 1..Len(c) : c[i] = "a"}
ContentsOf(file) == IF file = "f" THEN Contents ELSE ContentsG

RECURSIVE SetToSortedSeq(_)
SetToSortedSeq(S) ==
    IF S = {} THEN <<>>
    ELSE LET m == CHOOSE x \in S : \A y \in S : x <= y
         IN  <<m>> \o SetToSortedSeq(S \ {m})

SeqToSet(s) == {s[i] : i \in 1..Len(s)}

\* --------------------------------------------------------- bytes and lines
\* Bytes of one line, newline included.
LineLen(t) == IF t = "" THEN 1 ELSE 2

RECURSIVE ByteLen(_)
ByteLen(content) ==
    IF content = <<>> THEN 0 ELSE LineLen(Head(content)) + ByteLen(Tail(content))

\* Offset of the first byte of line j (1-based) of content.
LineStart(content, j) == ByteLen(SubSeq(content, 1, j - 1))
LineEnd(content, j) == ByteLen(SubSeq(content, 1, j))

\* ------------------------------------------------------------ line ranges
\* LineRange::compress_lines: a sorted list of line numbers to Single/Range
\* items; Single(n) is the pair <<n, n>>.  Equal or adjacent successors
\* collapse.
RECURSIVE compress_lines(_)
compress_lines(lines) ==
    IF lines = <<>> THEN <<>>
    ELSE LET rest == compress_lines(Tail(lines))
             n == Head(lines)
         IN  IF rest # <<>> /\ rest[1][1] <= n + 1 /\ n <= rest[1][2]
             THEN <<(<<Min2(n, rest[1][1]), rest[1][2]>>)>> \o Tail(rest)
             ELSE <<(<<n, n>>)>> \o rest

\* LineRange::expand over a list of ranges.
RECURSIVE expand(_)
expand(ranges) ==
    IF ranges = <<>> THEN <<>>
    ELSE [i \in 1..(Head(ranges)[2] - Head(ranges)[1] + 1) |-> Head(ranges)[1] + i - 1]
         \o expand(Tail(ranges))

RangeLines(ranges) == SeqToSet(expand(ranges))

\* ------------------------------------------------------ line-level TextDiff
RECURSIVE LcsLen(_, _)
LcsLen(a, b) ==
    IF a = <<>> \/ b = <<>> THEN 0
    ELSE IF Head(a) = Head(b) THEN 1 + LcsLen(Tail(a), Tail(b))
    ELSE Max2(LcsLen(Tail(a), b), LcsLen(a, Tail(b)))

\* TextDiff::from_lines(old, new).iter_all_changes(): one change per line,
\* deletions before insertions inside a replaced region.
RECURSIVE TextDiff(_, _)
TextDiff(old, new) ==
    IF old = <<>> THEN [i \in 1..Len(new) |-> "insert"]
    ELSE IF new = <<>> THEN [i \in 1..Len(old) |-> "delete"]
    ELSE IF Head(old) = Head(new)
         THEN <<"equal">> \o TextDiff(Tail(old), Tail(new))
    ELSE IF LcsLen(Tail(old), new) >= LcsLen(old, Tail(new))
         THEN <<"delete">> \o TextDiff(Tail(old), new)
    ELSE <<"insert">> \o TextDiff(old, Tail(new))

\* For every line of the new side: the old line it is matched to by an Equal
\* change, 0 when the line is an Insert.
RECURSIVE MatchWalk(_, _)
MatchWalk(ops, i) ==
    IF ops = <<>> THEN <<>>
    ELSE IF Head(ops) = "equal" THEN <<i>> \o MatchWalk(Tail(ops), i + 1)
    ELSE IF Head(ops) = "delete" THEN MatchWalk(Tail(ops), i + 1)
    ELSE <<0>> \o MatchWalk(Tail(ops), i)

DiffMatch(old, new) == MatchWalk(TextDiff(old, new), 1)

\* New-side line numbers of the Insert changes (the modified_lines loops).
InsertedLines(old, new) ==
    LET m == DiffMatch(old, new) IN {j \in 1..Len(new) : m[j] = 0}

\* ---------------------------------------------------- AttributionTracker
Attr(s, e, a, t) == [start |-> s, end |-> e, author_id |-> a, timestamp |-> t]

Covered(attrs, b) == \E i \in 1..Len(attrs) : attrs[i].start <= b /\ b < attrs[i].end

\* Maximal runs of bytes of [from, len) that no attribution covers.
RECURSIVE GapRuns(_, _, _)
GapRuns(attrs, from, len) ==
    IF from >= len THEN <<>>
    ELSE IF Covered(attrs, from) THEN GapRuns(attrs, from + 1, len)
    ELSE LET stop == CHOOSE e \in (from + 1)..len :
                        /\ \A b \in from..(e - 1) : ~Covered(attrs, b)
                        /\ (e = len \/ Covered(attrs, e))
         IN  <<(<<from, stop>>)>> \o GapRuns(attrs, stop, len)

\* (T5) bytes of the content that no attribution covers go to `author`.
attribute_unattributed_ranges(content, attrs, author, ts) ==
    LET gaps == GapRuns(attrs, 0, ByteLen(content))
    IN  attrs \o [i \in 1..Len(gaps) |-> Attr(gaps[i][1], gaps[i][2], author, ts)]

AttrLess(x, y) ==
    \/ x.start < y.start
    \/ (x.start = y.start /\ x.timestamp < y.timestamp)

\* Stable insertion sort by (start, timestamp).
RECURSIVE InsertSorted(_, _)
InsertSorted(sorted, x) ==
    IF sorted = <<>> THEN <<x>>
    ELSE IF AttrLess(x, Head(sorted)) THEN <<x>> \o sorted
    ELSE <<Head(sorted)>> \o InsertSorted(Tail(sorted), x)

RECURSIVE SortAttrs(_)
SortAttrs(attrs) ==
    IF attrs = <<>> THEN <<>>
    ELSE InsertSorted(SortAttrs(SubSeq(attrs, 1, Len(attrs) - 1)), attrs[Len(attrs)])

\* Adjacent entries of one author with identical timestamps coalesce.
RECURSIVE Coalesce(_)
Coalesce(attrs) ==
    IF Len(attrs) <= 1 THEN attrs
    ELSE LET x == attrs[1]
             y == attrs[2]
         IN  IF x.author_id = y.author_id /\ x.timestamp = y.timestamp /\ y.start <= x.end
             THEN Coalesce(<<Attr(x.start, Max2(x.end, y.end), x.author_id, x.timestamp)>>
                           \o SubSeq(attrs, 3, Len(attrs)))
             ELSE <<x>> \o Coalesce(Tail(attrs))

\* The old attributions that intersect old line i, clipped to it and moved to
\* new line j.
CarryLine(old, new, attrs, i, j) ==
    LET os == LineStart(old, i)
        oe == LineEnd(old, i)
        ns == LineStart(new, j)
        hit == SelectSeq(attrs, LAMBDA a : a.start < oe /\ os < a.end)
    IN  [k \in 1..Len(hit) |->
            Attr(Max2(hit[k].start, os) - os + ns, Min2(hit[k].end, oe) - os + ns,
                 hit[k].author_id, hit[k].timestamp)]

RECURSIVE EmitLines(_, _, _, _, _, _, _)
EmitLines(old, new, attrs, m, j, author, ts) ==
    IF j > Len(new) THEN <<>>
    ELSE (IF m[j] = 0
          THEN <<Attr(LineStart(new, j), LineEnd(new, j), author, ts)>>
          ELSE CarryLine(old, new, attrs, m[j], j))
         \o EmitLines(old, new, attrs, m, j + 1, author, ts)

\* (T1)-(T3): Equal runs carry their attributions, Insert runs go to
\* (author, ts), Delete runs vanish; then sort and coalesce.
update_attributions(old, new, attrs, author, ts) ==
    Coalesce(SortAttrs(EmitLines(old, new, attrs, DiffMatch(old, new), 1, author, ts)))

\* The authors whose attributions touch line j.
LineAuthors(attrs, content, j) ==
    {attrs[i].author_id : i \in {k \in 1..Len(attrs) :
        attrs[k].start < LineEnd(content, j) /\ LineStart(content, j) < attrs[k].end}}

LinesOfAuthor(attrs, content, a) ==
    {j \in 1..Len(content) : a \in LineAuthors(attrs, content, j)}

RECURSIVE LineAttrsFrom(_, _, _)
LineAttrsFrom(attrs, content, k) ==
    IF k > Len(AuthorOrder) THEN <<>>
    ELSE LET rs == compress_lines(SetToSortedSeq(LinesOfAuthor(attrs, content, AuthorOrder[k])))
         IN  [i \in 1..Len(rs) |->
                [start_line |-> rs[i][1], end_line |-> rs[i][2], author_id |-> AuthorOrder[k]]]
             \o LineAttrsFrom(attrs, content, k + 1)

\* One LineAttribution per author and run of lines the author touches.
attributions_to_line_attributions(attrs, content) == LineAttrsFrom(attrs, content, 1)

\* Whole lines of an author as byte attributions (blame of HEAD).
RECURSIVE line_attributions_to_attributions(_, _, _)
line_attributions_to_attributions(line_attrs, content, ts) ==
    IF line_attrs = <<>> THEN <<>>
    ELSE LET la == Head(line_attrs)
         IN  (IF la.start_line >= 1 /\ la.end_line <= Len(content)
              THEN <<Attr(LineStart(content, la.start_line), LineEnd(content, la.end_line),
                          la.author_id, ts)>>
              ELSE <<>>)
             \o line_attributions_to_attributions(Tail(line_attrs), content, ts)

\* The author of byte b: the covering attribution with the latest timestamp,
\* the later entry on a tie (T4); "none" when nothing covers b.
AuthorAt(attrs, b) ==
    LET I == {i \in 1..Len(attrs) : attrs[i].start <= b /\ b < attrs[i].end}
    IN  IF I = {} THEN "none"
        ELSE attrs[CHOOSE i \in I : \A k \in I :
                      \/ attrs[k].timestamp < attrs[i].timestamp
                      \/ (attrs[k].timestamp = attrs[i].timestamp /\ k <= i)].author_id

WorkingLogEntry(file, blob_sha, attributions, line_attributions) ==
    [file |-> file, blob_sha |-> blob_sha, attributions |-> attributions,
     line_attributions |-> line_attributions]

\* make_entry_for_file without the gap filling of the previous attributions.
make_entry_for_file_unfilled(file_path, blob_sha, author_id, previous_content, previous_attributions, content, ts) ==
    LET new_attributions ==
            update_attributions(previous_content, content, previous_attributions,
                                author_id, ts)
    IN  WorkingLogEntry(file_path, blob_sha, new_attributions,
                        attributions_to_line_attributions(new_attributions, content))

\* make_entry_for_file crediting the human with the inserted text.
make_entry_for_file_as_human(file_path, blob_sha, author_id, previous_content, previous_attributions, content, ts) ==
    LET filled_in_prev_attributions ==
            attribute_unattributed_ranges(previous_content, previous_attributions,
                                          Human, ts - 1)
        new_attributions ==
            update_attributions(previous_content, content, filled_in_prev_attributions,
                                Human, ts)
    IN  WorkingLogEntry(file_path, blob_sha, new_attributions,
                        attributions_to_line_attributions(new_attributions, content))

\* make_entry_for_file filling the gaps of the previous attributions at the
\* timestamp of the checkpoint itself.
make_entry_for_file_filled_at_ts(file_path, blob_sha, author_id, previous_content, previous_attributions, content, ts) ==
    LET filled_in_prev_attributions ==
            attribute_unattributed_ranges(previous_content, previous_attributions,
                                          Human, ts)
        new_attributions ==
            update_attributions(previous_content, content, filled_in_prev_attributions,
                                author_id, ts)
    IN  WorkingLogEntry(file_path, blob_sha, new_attributions,
                        attributions_to_line_attributions(new_attributions, content))

make_entry_for_file(file_path, blob_sha, author_id, previous_content, previous_attributions, content, ts) ==
    LET filled_in_prev_attributions ==
            attribute_unattributed_ranges(previous_content, previous_attributions,
                                          Human, ts - 1)
        new_attributions ==
            update_attributions(previous_content, content, filled_in_prev_attributions,
                                author_id, ts)
    IN  WorkingLogEntry(file_path, blob_sha, new_attributions,
                        attributions_to_line_attributions(new_attributions, content))

\* ------------------------------------------------------------------ state
VARIABLES
    head,              \* the commit HEAD points at, Initial in an empty repository
    nCommits,          \* commits that exist; commit ids are 1..nCommits
    parent,            \* commit id -> first parent (Initial for a root commit)
    tree,              \* commit id -> file -> content (<<>>: not in the tree)
    index,             \* file -> staged content
    workdir,           \* file -> content in the working tree (<<>>: no file)
    logs,              \* base commit -> checkpoints.jsonl of its working log
    blobs,             \* base commit -> snapshot contents of its blob store
    notes,             \* commit id -> authorship note under refs/notes/ai
    rewrite_log,       \* rewrite events, newest first
    clock,             \* the system time in milliseconds
    debug_assertions,  \* cfg!(debug_assertions) of the build
    budget,            \* the operations one run may take
    nEdits, nCheckpoints, nCommitRuns,
    carry,             \* file -> AI lines left unstaged by the last commit
    last,              \* what the last operation did (history)
    tracker,           \* the file followed by SpecTracker
    bare,              \* the repository is bare
    unmerged,          \* the files git status reports as unmerged
    ran,               \* what the last git-ai checkpoint command did (history)
    wrapper,           \* the git wrapper process: its position and what it saw
    rewrite_file,      \* the file .git/ai/rewrite_log
    writers,           \* the processes inside append_event_to_file
    appends,           \* the calls of append_event_to_file so far (history)
    ref_tip,           \* the commit the ref named to Repository::commit points at
    committer,         \* the process inside Repository::commit
    parser,            \* one call of diff_added_lines: the diff and its result
    author_call,       \* one call of get_commit_default_author: what it reads and returns
    proxy,             \* proxy_to_git: the wrapper process, its git child and the signals
    rebase,            \* one git rebase: the branch, what it is rebased onto, the result
    commit_run,        \* one post_commit from notes_add on, with the calls that can fail
    push_run           \* one run of the post-command hook of git push

vars == <<head, nCommits, parent, tree, index, workdir, logs, blobs, notes, rewrite_log,
          clock, debug_assertions, budget, nEdits, nCheckpoints, nCommitRuns, carry, last,
          tracker, bare, unmerged, ran, wrapper, rewrite_file, writers, appends,
          ref_tip, committer, parser, author_call, proxy,
          rebase, commit_run,
          push_run>>

\* The repository and its wrapper, and the components that are followed on
\* their own.
repo_vars == <<head, nCommits, parent, tree, index, workdir, logs, blobs, notes,
               rewrite_log, clock, debug_assertions, budget, nEdits, nCheckpoints,
               nCommitRuns, carry, last, tracker, bare, unmerged, ran, wrapper>>
rewrite_vars == <<rewrite_file, writers, appends>>
ref_vars == <<ref_tip, committer>>
diff_vars == <<parser>>
author_vars == <<author_call>>
proxy_vars == <<proxy>>
rebase_vars == <<rebase>>
postcommit_vars == <<commit_run>>
push_vars == <<push_run>>
side_vars ==
    <<rewrite_vars, ref_vars, diff_vars, author_vars,
      proxy_vars, rebase_vars, postcommit_vars, push_vars>>
not_rewrite ==
    <<repo_vars, ref_vars, diff_vars, author_vars,
      proxy_vars, rebase_vars, postcommit_vars, push_vars>>
not_ref ==
    <<repo_vars, rewrite_vars, diff_vars, author_vars,
      proxy_vars, rebase_vars, postcommit_vars, push_vars>>
not_diff ==
    <<repo_vars, rewrite_vars, ref_vars, author_vars,
      proxy_vars, rebase_vars, postcommit_vars, push_vars>>
not_author ==
    <<repo_vars, rewrite_vars, ref_vars, diff_vars,
      proxy_vars, rebase_vars, postcommit_vars, push_vars>>
not_proxy ==
    <<repo_vars, rewrite_vars, ref_vars, diff_vars,
      author_vars, rebase_vars, postcommit_vars, push_vars>>
not_rebase ==
    <<repo_vars, rewrite_vars, ref_vars, diff_vars,
      author_vars, proxy_vars, postcommit_vars, push_vars>>
not_postcommit ==
    <<repo_vars, rewrite_vars, ref_vars, diff_vars,
      author_vars, proxy_vars, rebase_vars, push_vars>>
not_push ==
    <<repo_vars, rewrite_vars, ref_vars, diff_vars,
      author_vars, proxy_vars, rebase_vars, postcommit_vars>>

CommitIds == 1..(Max2(MaxCommits, MaxCommitsSplit) + 1)
Bases == {Initial} \cup CommitIds
EmptyTree == [f \in Files |-> <<>>]
NoAttestations == [f \in Files |-> <<>>]
NoLines == [f \in Files |-> {}]
NoNote == [present |-> FALSE, base_commit |-> Initial, attestations |-> NoAttestations]

TreeOf(c) == IF c = Initial THEN EmptyTree ELSE tree[c]

\* Op over the files in FileOrder, results concatenated.
OverFiles(Op(_)) == Op(FileOrder[1]) \o Op(FileOrder[2])

\* ------------------------------------------------------------- checkpoint
\* Repository::status, reduced to what get_all_files reads from an entry.
StagedChanged(file) == index[file] # TreeOf(head)[file]
UnstagedChanged(file) == workdir[file] # index[file]

is_text_file(file) == workdir[file] # <<>>
is_text_file_in_head(file) == TreeOf(head)[file] # <<>>

get_all_files ==
    {file \in Files :
        /\ file \notin unmerged
        /\ StagedChanged(file) \/ UnstagedChanged(file)
        /\ LET is_deleted == \/ (index[file] = <<>> /\ TreeOf(head)[file] # <<>>)
                             \/ (workdir[file] = <<>> /\ index[file] # <<>>)
           IN  IF is_deleted THEN is_text_file_in_head(file) ELSE is_text_file(file)}

RECURSIVE AllEntries(_)
AllEntries(checkpoints) ==
    IF checkpoints = <<>> THEN <<>>
    ELSE Head(checkpoints).entries \o AllEntries(Tail(checkpoints))

EntriesOf(checkpoints, file) == SelectSeq(AllEntries(checkpoints), LAMBDA e : e.file = file)
HasEntry(checkpoints, file) == EntriesOf(checkpoints, file) # <<>>
LatestEntry(checkpoints, file) ==
    LET es == EntriesOf(checkpoints, file) IN es[Len(es)]

\* get_all_tracked_files without the files of the previous checkpoints.
get_all_tracked_files_of_status(checkpoints) == get_all_files

get_all_tracked_files(checkpoints) ==
    get_all_files \cup {file \in Files : HasEntry(checkpoints, file) /\ is_text_file(file)}

\* PersistedWorkingLog::get_file_version: a snapshot is addressed by its
\* content; a missing blob reads as the empty string (unwrap_or_default).
get_file_version(store, hash) == IF hash \in store THEN hash ELSE <<>>

\* git-ai blame of a file at commit c: the author of every line, Human when
\* no note of the commit that introduced the line attests it.
RECURSIVE blame(_, _)
blame(c, file) ==
    IF c = Initial THEN <<>>
    ELSE LET cur == tree[c][file]
             m == DiffMatch(TreeOf(parent[c])[file], cur)
             pb == blame(parent[c], file)
             att == notes[c].attestations[file]
             Hit(j) == {k \in 1..Len(att) : j \in RangeLines(att[k].line_ranges)}
         IN  [j \in 1..Len(cur) |->
                IF m[j] # 0 THEN pb[m[j]]
                ELSE IF Hit(j) = {} THEN Human
                ELSE att[CHOOSE k \in Hit(j) : \A x \in Hit(j) : k <= x].hash]

InitialEntry(file, author_id, ts) ==
    LET previous_content == TreeOf(head)[file]
        current_content == workdir[file]
        ai_blame == blame(head, file)
        ai_lines == SetToSortedSeq({j \in 1..Len(ai_blame) : ai_blame[j] # Human})
        prev_line_attributions ==
            [i \in 1..Len(ai_lines) |->
                [start_line |-> ai_lines[i], end_line |-> ai_lines[i],
                 author_id |-> ai_blame[ai_lines[i]]]]
        prev_attributions ==
            line_attributions_to_attributions(prev_line_attributions, previous_content, ts)
    IN  IF current_content = previous_content THEN <<>>
        ELSE <<make_entry_for_file(file, current_content, author_id, previous_content,
                                   prev_attributions, current_content, ts)>>

get_initial_checkpoint_entries(files, author_id, ts) ==
    OverFiles(LAMBDA file : IF file \in files THEN InitialEntry(file, author_id, ts) ELSE <<>>)

SubsequentEntry(file, store, previous_checkpoints, author_id, ts) ==
    LET current_content == workdir[file]
        known == HasEntry(previous_checkpoints, file)
        previous_content ==
            IF known
            THEN get_file_version(store, LatestEntry(previous_checkpoints, file).blob_sha)
            ELSE <<>>
        prev_attributions ==
            IF known THEN LatestEntry(previous_checkpoints, file).attributions ELSE <<>>
    IN  IF current_content = previous_content THEN <<>>
        ELSE <<make_entry_for_file(file, current_content, author_id, previous_content,
                                   prev_attributions, current_content, ts)>>

get_subsequent_checkpoint_entries(files, store, previous_checkpoints, author_id, ts) ==
    OverFiles(LAMBDA file :
        IF file \in files
        THEN SubsequentEntry(file, store, previous_checkpoints, author_id, ts)
        ELSE <<>>)

\* The outcome of a checkpoint run: Ok or the message of its error.
Ok == "ok"
BareError == "Cannot run checkpoint on bare repositories"
IoError == "io error"

\* What run reads as the previous checkpoints of the working log.
read_checkpoints_always_reset(lg, base_commit, reset) == <<>>

read_checkpoints(lg, base_commit, reset) ==
    IF reset THEN <<>> ELSE lg[base_commit]

\* checkpoint::run past its check of the repository, on the working log of
\* HEAD: the log and the blob store it leaves, and the number of entries it
\* reports.  An AI checkpoint comes with its agent run; its author id is the
\* session hash.  The storage may fail where the run first reads it.
run_on_working_log(lg, bl, author_id, ts, reset, storage_fails) ==
    LET base_commit == head
        checkpoints == read_checkpoints(lg, base_commit, reset)
        files == get_all_tracked_files(lg[base_commit])
        saved == bl[base_commit] \cup {workdir[file] : file \in files}
        entries ==
            IF checkpoints = <<>>
            THEN get_initial_checkpoint_entries(files, author_id, ts)
            ELSE get_subsequent_checkpoint_entries(files, saved, checkpoints, author_id, ts)
        checkpoint ==
            [kind |-> IF author_id = Human THEN "human" ELSE "ai_agent",
             author |-> author_id,
             agent_id |-> IF author_id = Human THEN "none" ELSE author_id,
             timestamp |-> ts,
             entries |-> entries]
    IN  IF storage_fails
        THEN [logs |-> lg, blobs |-> bl, clock |-> ts, result |-> IoError,
              entries_len |-> 0, files |-> {}]
        ELSE [logs |-> [lg EXCEPT ![base_commit] =
                            IF entries # <<>> THEN Append(checkpoints, checkpoint)
                            ELSE checkpoints],
              blobs |-> [bl EXCEPT ![base_commit] = saved],
              clock |-> IF entries # <<>> THEN ts + 1 ELSE ts,
              result |-> Ok,
              entries_len |-> Len(entries),
              files |-> files]

\* run without its check for a bare repository.
run_without_bare_check(lg, bl, author_id, ts, reset, storage_fails) ==
    run_on_working_log(lg, bl, author_id, ts, reset, storage_fails)

\* checkpoint::run: a bare repository is refused before the storage of the
\* working log is opened.
run(lg, bl, author_id, ts, reset, storage_fails) ==
    IF bare
    THEN [logs |-> lg, blobs |-> bl, clock |-> ts, result |-> BareError, entries_len |-> 0,
          files |-> {}]
    ELSE run_on_working_log(lg, bl, author_id, ts, reset, storage_fails)

\* A checkpoint without the reset flag on a storage that works.
checkpoint_run(lg, bl, author_id, ts) == run(lg, bl, author_id, ts, FALSE, FALSE)

\* ------------------------------------------------------------ post-commit
EntryLines(e) ==
    UNION {e.line_attributions[i].start_line .. e.line_attributions[i].end_line :
              i \in 1..Len(e.line_attributions)}

\* The lines of attestation entries of one file that carry hash h.
AttLines(att, h) ==
    UNION {RangeLines(att[k].line_ranges) : k \in {i \in 1..Len(att) : att[i].hash = h}}

\* One attestation entry per AI author, from a function author -> lines.
RECURSIVE AttFrom(_, _)
AttFrom(L(_), k) ==
    IF k > Len(AuthorOrder) THEN <<>>
    ELSE (IF AuthorOrder[k] # Human /\ L(AuthorOrder[k]) # {}
          THEN <<[hash |-> AuthorOrder[k],
                  line_ranges |-> compress_lines(SetToSortedSeq(L(AuthorOrder[k])))]>>
          ELSE <<>>)
         \o AttFrom(L, k + 1)

\* filter_untracked_files keeping the entries of the files whose content in
\* the commit's tree differs from the one in the tree of its first parent.
filter_untracked_files_changed_only(checkpoints, current_tree, has_parent, first_parent_tree) ==
    LET Keep(e) == current_tree[e.file] #
                      (IF has_parent THEN first_parent_tree[e.file] ELSE <<>>)
        filtered == [i \in 1..Len(checkpoints) |->
                        [checkpoints[i] EXCEPT !.entries = SelectSeq(@, Keep)]]
    IN  SelectSeq(filtered, LAMBDA cp : cp.entries # <<>>)

\* filter_untracked_files: an entry stays when its file is in the commit's
\* tree or was not in the tree of the commit's first parent (the commit's own
\* tree when it has no parent).
filter_untracked_files(checkpoints, current_tree, has_parent, first_parent_tree) ==
    LET parent_tree == IF has_parent THEN first_parent_tree ELSE current_tree
        Keep(e) == current_tree[e.file] # <<>> \/ parent_tree[e.file] = <<>>
        filtered == [i \in 1..Len(checkpoints) |->
                        [checkpoints[i] EXCEPT !.entries = SelectSeq(@, Keep)]]
    IN  SelectSeq(filtered, LAMBDA cp : cp.entries # <<>>)

\* AuthorshipLog::from_working_log_with_base_commit_and_human_author: the
\* final line attributions of every file, the non-human ones attested.
from_working_log(checkpoints) ==
    [file \in Files |->
        IF ~HasEntry(checkpoints, file) THEN <<>>
        ELSE LET e == LatestEntry(checkpoints, file)
                 L(a) == UNION {e.line_attributions[i].start_line ..
                                e.line_attributions[i].end_line :
                                  i \in {k \in 1..Len(e.line_attributions) :
                                            e.line_attributions[k].author_id = a}}
             IN  AttFrom(L, 1)]

\* collect_committed_hunks counting, for a first commit, the lines of the
\* file in the working tree instead of the lines of the committed blob.
collect_committed_hunks_workdir_count(parent_sha, current_tree) ==
    [file \in Files |->
        IF parent_sha = Initial
        THEN IF workdir[file] # <<>> /\ current_tree[file] # <<>>
             THEN 1..Len(workdir[file]) ELSE {}
        ELSE InsertedLines(tree[parent_sha][file], current_tree[file])]

\* collect_committed_hunks: the lines the commit added, per file.
collect_committed_hunks(parent_sha, current_tree) ==
    [file \in Files |->
        IF parent_sha = Initial
        THEN IF workdir[file] # <<>> /\ current_tree[file] # <<>>
             THEN 1..Len(current_tree[file]) ELSE {}
        ELSE InsertedLines(tree[parent_sha][file], current_tree[file])]

\* The newline normalisation of collect_unstaged_hunks: content that does
\* not end in a newline gets one, the empty content included.
NormalizeUnstaged(content) == IF content = <<>> THEN <<"">> ELSE content

\* collect_unstaged_hunks: the working-tree lines that are not in the
\* commit, per file with an unstaged change.
collect_unstaged_hunks(current_tree) ==
    [file \in Files |->
        IF UnstagedChanged(file)
        THEN InsertedLines(NormalizeUnstaged(current_tree[file]),
                           NormalizeUnstaged(workdir[file]))
        ELSE {}]

\* convert_authorship_log_to_commit_coordinates: every working-tree line
\* number is lowered by the number of unstaged lines before it.
convert_authorship_log_to_commit_coordinates(attestations, unstaged_hunks) ==
    [file \in Files |->
        IF unstaged_hunks[file] = {} THEN attestations[file]
        ELSE LET att == attestations[file]
                 Conv(w) == w - Cardinality({u \in unstaged_hunks[file] : u < w})
             IN  [k \in 1..Len(att) |->
                    [att[k] EXCEPT !.line_ranges =
                        compress_lines(SetToSortedSeq(
                            {Conv(w) : w \in RangeLines(att[k].line_ranges)}))]]]

\* AuthorshipLog::filter_to_committed_lines: only lines of the committed
\* hunks stay; entries left without lines are dropped.
filter_to_committed_lines(attestations, committed_hunks) ==
    [file \in Files |->
        LET att == attestations[file]
            kept == [k \in 1..Len(att) |->
                        [att[k] EXCEPT !.line_ranges =
                            compress_lines(SetToSortedSeq(
                                RangeLines(att[k].line_ranges) \cap committed_hunks[file]))]]
        IN  SelectSeq(kept, LAMBDA x : x.line_ranges # <<>>)]

\* The hand-off filter of one entry: its lines restricted to the unstaged
\* lines of its file; an entry of a file without unstaged hunks is left as
\* it is.
FilterEntry(e, unstaged_hunks) ==
    IF unstaged_hunks[e.file] = {} THEN e
    ELSE [e EXCEPT !.line_attributions =
            LET las == e.line_attributions
                Part(i) ==
                    LET rs == compress_lines(SetToSortedSeq(
                                (las[i].start_line .. las[i].end_line)
                                    \cap unstaged_hunks[e.file]))
                    IN  [k \in 1..Len(rs) |->
                            [start_line |-> rs[k][1], end_line |-> rs[k][2],
                             author_id |-> las[i].author_id]]
                Cat[i \in 0..Len(las)] == IF i = 0 THEN <<>> ELSE Cat[i - 1] \o Part(i)
            IN  Cat[Len(las)]]

HandOff(checkpoints, unstaged_hunks) ==
    LET filtered ==
            [i \in 1..Len(checkpoints) |->
                [checkpoints[i] EXCEPT !.entries =
                    SelectSeq([k \in 1..Len(@) |-> FilterEntry(@[k], unstaged_hunks)],
                              LAMBDA e : EntryLines(e) # {})]]
    IN  SelectSeq(filtered, LAMBDA cp : cp.entries # <<>>)

\* What post_commit derives from the working log before it writes anything.
Projection(parent_working_log, hunk_base, current_tree, has_parent, first_parent_tree) ==
    LET filtered_working_log ==
            filter_untracked_files(parent_working_log, current_tree, has_parent,
                                   first_parent_tree)
        raw == from_working_log(filtered_working_log)
        committed_hunks == collect_committed_hunks(hunk_base, current_tree)
        unstaged_hunks == collect_unstaged_hunks(current_tree)
        converted == convert_authorship_log_to_commit_coordinates(raw, unstaged_hunks)
    IN  [filtered_working_log |-> filtered_working_log,
         raw |-> raw,
         committed_hunks |-> committed_hunks,
         unstaged_hunks |-> unstaged_hunks,
         attestations |-> filter_to_committed_lines(converted, committed_hunks),
         has_unstaged_ai_lines |->
            /\ \E file \in Files : unstaged_hunks[file] # {}
            /\ \E i \in 1..Len(parent_working_log) : parent_working_log[i].agent_id # "none"]

\* post_commit keeping the parent's working log after a hand-off.
post_commit_keep_after_hand_off(lg, bl, nts, parent_sha, commit_sha, current_tree, has_parent, first_parent_tree) ==
    LET parent_working_log == lg[parent_sha]
        p == Projection(parent_working_log, parent_sha, current_tree, has_parent,
                        first_parent_tree)
        carried == IF p.has_unstaged_ai_lines
                   THEN HandOff(parent_working_log, p.unstaged_hunks) ELSE <<>>
        lg1 == [lg EXCEPT ![commit_sha] = @ \o carried]
        keep == debug_assertions \/ p.has_unstaged_ai_lines
    IN  [logs |-> IF keep THEN lg1 ELSE [lg1 EXCEPT ![parent_sha] = <<>>],
         blobs |-> IF keep THEN bl ELSE [bl EXCEPT ![parent_sha] = {}],
         notes |-> [nts EXCEPT ![commit_sha] =
                        [present |-> TRUE, base_commit |-> parent_sha,
                         attestations |-> p.attestations]],
         projection |-> p]

\* post_commit(base_commit, commit_sha): publish the note, hand the unstaged
\* part of the working log over to commit_sha, delete the parent's working
\* log unless the build has debug assertions.
post_commit(lg, bl, nts, parent_sha, commit_sha, current_tree, has_parent, first_parent_tree) ==
    LET parent_working_log == lg[parent_sha]
        p == Projection(parent_working_log, parent_sha, current_tree, has_parent,
                        first_parent_tree)
        carried == IF p.has_unstaged_ai_lines
                   THEN HandOff(parent_working_log, p.unstaged_hunks) ELSE <<>>
        lg1 == [lg EXCEPT ![commit_sha] = @ \o carried]
    IN  [logs |-> IF debug_assertions THEN lg1 ELSE [lg1 EXCEPT ![parent_sha] = <<>>],
         blobs |-> IF debug_assertions THEN bl ELSE [bl EXCEPT ![parent_sha] = {}],
         notes |-> [nts EXCEPT ![commit_sha] =
                        [present |-> TRUE, base_commit |-> parent_sha,
                         attestations |-> p.attestations]],
         projection |-> p]

\* The CommitAmend arm of rewrite_authorship_if_needed: the original note
\* restricted to the lines the amended commit adds over its parent, overlaid
\* with the projection of the working log of the original commit.
rewrite_authorship_after_commit_amend(lg, bl, nts, original_commit, amended_commit, current_tree) ==
    LET hunk_base == parent[original_commit]
        parent_working_log == lg[original_commit]
        p == Projection(parent_working_log, hunk_base, current_tree,
                        hunk_base # Initial, TreeOf(hunk_base))
        orig == nts[original_commit].attestations
        merged == [file \in Files |->
                    LET L(a) == (AttLines(orig[file], a) \cap p.committed_hunks[file])
                                    \cup AttLines(p.attestations[file], a)
                    IN  AttFrom(L, 1)]
        carried == IF p.has_unstaged_ai_lines
                   THEN HandOff(parent_working_log, p.unstaged_hunks) ELSE <<>>
        lg1 == [lg EXCEPT ![amended_commit] = @ \o carried]
    IN  [logs |-> IF debug_assertions THEN lg1 ELSE [lg1 EXCEPT ![original_commit] = <<>>],
         blobs |-> IF debug_assertions THEN bl ELSE [bl EXCEPT ![original_commit] = {}],
         notes |-> [nts EXCEPT ![amended_commit] =
                        [present |-> TRUE, base_commit |-> hunk_base,
                         attestations |-> merged]],
         projection |-> p]

\* RewriteLogEvent::commit / commit_amend.
RewriteEvent(kind, base_commit, commit_sha) ==
    [kind |-> kind, base_commit |-> base_commit, commit_sha |-> commit_sha]

\* rewrite_authorship_if_needed: a Commit event runs post_commit on the
\* event's base commit, a CommitAmend event rewrites the note of the
\* original commit.
rewrite_authorship_if_needed(lg, bl, nts, event, current_tree) ==
    IF event.kind = "commit_amend"
    THEN rewrite_authorship_after_commit_amend(lg, bl, nts, event.base_commit,
                                               event.commit_sha, current_tree)
    ELSE post_commit(lg, bl, nts, event.base_commit, event.commit_sha, current_tree,
                     event.base_commit # Initial, TreeOf(event.base_commit))

\* handle_rewrite_log_event with apply_side_effects: the event is appended
\* to the rewrite log by the caller's step, then authorship is reconciled.
handle_rewrite_log_event(lg, bl, nts, event, current_tree) ==
    rewrite_authorship_if_needed(lg, bl, nts, event, current_tree)

\* commit_post_command_hook giving up when there was no commit before.
commit_post_command_hook_needs_original(exit_success, is_amend, original_commit, new_sha) ==
    IF ~exit_success \/ original_commit = Initial THEN <<>>
    ELSE IF is_amend
    THEN <<RewriteEvent("commit_amend", original_commit, new_sha)>>
    ELSE <<RewriteEvent("commit", original_commit, new_sha)>>

\* commit_post_command_hook: the event the hook hands to
\* handle_rewrite_log_event, none when git failed; --amend with an original
\* commit is CommitAmend.
commit_post_command_hook(exit_success, is_amend, original_commit, new_sha) ==
    IF ~exit_success THEN <<>>
    ELSE IF is_amend /\ original_commit # Initial
    THEN <<RewriteEvent("commit_amend", original_commit, new_sha)>>
    ELSE <<RewriteEvent("commit", original_commit, new_sha)>>

\* ------------------------------------------------------------ reset hooks
\* The arguments of a git reset: its mode flag ("none" without one) and its
\* positional arguments.  A commit is spelled by its id or as HEAD~1.
ResetModes == {"hard", "soft", "mixed", "none"}
ResetRevisions == {"HEAD", "HEAD~1"}
ResetPaths == {"a", "ab"}
ResetArgs(mode, positional) == [mode |-> mode, positional |-> positional]

\* Repository::revparse_single and peel_to_commit in the current state;
\* Initial when the name resolves to no commit.
resolve_tree_ish_to_commit(tree_ish) ==
    IF tree_ish = "HEAD" THEN head
    ELSE IF tree_ish = "HEAD~1" THEN (IF head = Initial THEN Initial ELSE parent[head])
    ELSE IF \E c \in 1..nCommits : ToString(c) = tree_ish
         THEN CHOOSE c \in 1..nCommits : ToString(c) = tree_ish
         ELSE Initial

\* git merge-base --is-ancestor.
RECURSIVE is_ancestor(_, _)
is_ancestor(ancestor, descendant) ==
    IF descendant = Initial THEN FALSE
    ELSE IF ancestor = descendant THEN TRUE
    ELSE is_ancestor(ancestor, parent[descendant])

has_reset_mode_flag(args) == args.mode # "none"

extract_tree_ish(args) ==
    IF args.positional # <<>> THEN args.positional[1] ELSE "HEAD"

extract_pathspecs(args) ==
    LET skip_first_positional == has_reset_mode_flag(args) \/ Len(args.positional) >= 2
    IN  IF skip_first_positional /\ args.positional # <<>>
        THEN Tail(args.positional)
        ELSE args.positional

\* RepoStorage::delete_working_log_for_base_commit: the checkpoints and the
\* blobs of the working log go.
delete_working_log_for_base_commit(st, base_commit) ==
    [logs |-> [st.logs EXCEPT ![base_commit] = <<>>],
     blobs |-> [st.blobs EXCEPT ![base_commit] = {}]]

\* The commits from old_head down to target_commit, target_commit excluded.
RECURSIVE DiscardedCommits(_, _)
DiscardedCommits(target_commit, c) ==
    IF c = Initial \/ c = target_commit THEN <<>>
    ELSE <<c>> \o DiscardedCommits(target_commit, parent[c])

\* The synthetic checkpoint of one discarded commit: an entry for every file
\* the commit added lines to, the added lines with the authors its note
\* attests, Human where it attests none.
SyntheticCheckpoint(c, ts) ==
    LET SyntheticEntry(file) ==
            LET content == tree[c][file]
                added == SetToSortedSeq(InsertedLines(TreeOf(parent[c])[file], content))
                Who(j) ==
                    LET hit == {a \in AiAuthors :
                                  j \in AttLines(notes[c].attestations[file], a)}
                    IN  IF hit = {} THEN Human ELSE CHOOSE a \in hit : TRUE
                line_attrs == [i \in 1..Len(added) |->
                                [start_line |-> added[i], end_line |-> added[i],
                                 author_id |-> Who(added[i])]]
                attrs == line_attributions_to_attributions(line_attrs, content, ts)
            IN  IF added = <<>> THEN <<>>
                ELSE <<WorkingLogEntry(file, content, attrs,
                                       attributions_to_line_attributions(attrs, content))>>
    IN  [kind |-> "human", author |-> Human, agent_id |-> "none", timestamp |-> ts,
         entries |-> OverFiles(SyntheticEntry)]

\* rebase_authorship::reconstruct_working_log_after_reset: the working log
\* of target_commit becomes one synthetic checkpoint per discarded commit
\* that added lines, the oldest commit first.
reconstruct_working_log_after_reset(st, target_commit, old_head) ==
    LET walk == DiscardedCommits(target_commit, old_head)
        cps == [i \in 1..Len(walk) |-> SyntheticCheckpoint(walk[Len(walk) + 1 - i], clock)]
        kept == SelectSeq(cps, LAMBDA cp : cp.entries # <<>>)
    IN  [logs |-> [st.logs EXCEPT ![target_commit] = kept],
         blobs |-> [st.blobs EXCEPT ![target_commit] =
                        {AllEntries(kept)[i].blob_sha : i \in 1..Len(AllEntries(kept))}]]

handle_reset_hard(st, old_head_sha, target_commit_sha) ==
    delete_working_log_for_base_commit(st, old_head_sha)

handle_reset_preserve_working_dir(st, old_head_sha, target_commit_sha, new_head_sha) ==
    IF old_head_sha = target_commit_sha THEN st
    ELSE IF ~is_ancestor(target_commit_sha, old_head_sha)
    THEN delete_working_log_for_base_commit(st, old_head_sha)
    ELSE reconstruct_working_log_after_reset(st, target_commit_sha, old_head_sha)

\* The paths of the two files: "a" and "ab", the first a proper prefix of
\* the second.
FilePath(file) == IF file = "f" THEN "a" ELSE "ab"

\* The characters of an argument.  A revision ("HEAD", "HEAD~1", an id)
\* shares no first character with a path and stays one symbol.
Chars(s) ==
    IF s = "a" THEN <<"a">>
    ELSE IF s = "ab" THEN <<"a", "b">>
    ELSE <<s>>

\* str::starts_with.
starts_with(s, prefix) ==
    /\ Len(Chars(prefix)) <= Len(Chars(s))
    /\ SubSeq(Chars(s), 1, Len(Chars(prefix))) = Chars(prefix)

\* The closure of the two retain calls: the entry's path is a pathspec or
\* starts with one.
MatchesPathspec(file, pathspecs) ==
    \E i \in 1..Len(pathspecs) :
        FilePath(file) = pathspecs[i] \/ starts_with(FilePath(file), pathspecs[i])

\* git's own pathspec matching on paths without directories and without
\* wildcards: the path is the pathspec.
GitSelects(file, pathspecs) ==
    \E i \in 1..Len(pathspecs) : FilePath(file) = pathspecs[i]

\* The paths git itself takes from the arguments of a reset: what follows
\* the revision.
GitPathspecs(args) ==
    IF Len(args.positional) >= 2 THEN Tail(args.positional) ELSE <<>>

\* The checkpoints restricted to the entries that Keep accepts, the
\* checkpoints left without entries dropped.
RetainEntries(checkpoints, Keep(_)) ==
    SelectSeq([i \in 1..Len(checkpoints) |->
                  [checkpoints[i] EXCEPT !.entries = SelectSeq(@, Keep)]],
              LAMBDA cp : cp.entries # <<>>)

\* handle_reset_pathspec_preserve_working_dir writing back every checkpoint,
\* also those whose entries are all gone.
handle_reset_pathspec_keep_empty(st, old_head_sha, target_commit_sha, new_head_sha, pathspecs) ==
    LET Emptied(checkpoints, matching) ==
            [i \in 1..Len(checkpoints) |->
                [checkpoints[i] EXCEPT !.entries =
                    SelectSeq(@, LAMBDA entry :
                        MatchesPathspec(entry.file, pathspecs) = matching)]]
        st1 == handle_reset_preserve_working_dir(st, old_head_sha, target_commit_sha,
                                                 target_commit_sha)
        merged_checkpoints == Emptied(st.logs[old_head_sha], FALSE)
                                \o Emptied(st1.logs[target_commit_sha], TRUE)
        st2 == [st1 EXCEPT !.logs[new_head_sha] = merged_checkpoints]
    IN  IF target_commit_sha # new_head_sha
        THEN delete_working_log_for_base_commit(st2, target_commit_sha)
        ELSE st2

handle_reset_pathspec_preserve_working_dir(st, old_head_sha, target_commit_sha, new_head_sha, pathspecs) ==
    LET existing_checkpoints == st.logs[old_head_sha]
        non_pathspec_checkpoints ==
            RetainEntries(existing_checkpoints,
                          LAMBDA entry : ~MatchesPathspec(entry.file, pathspecs))
        st1 == handle_reset_preserve_working_dir(st, old_head_sha, target_commit_sha,
                                                 target_commit_sha)
        target_checkpoints == st1.logs[target_commit_sha]
        pathspec_checkpoints ==
            RetainEntries(target_checkpoints,
                          LAMBDA entry : MatchesPathspec(entry.file, pathspecs))
        merged_checkpoints == non_pathspec_checkpoints \o pathspec_checkpoints
        st2 == [st1 EXCEPT !.logs[new_head_sha] = merged_checkpoints]
    IN  IF target_commit_sha # new_head_sha
        THEN delete_working_log_for_base_commit(st2, target_commit_sha)
        ELSE st2

\* post_reset_hook, run after the git child whatever its exit status: st is
\* the working logs and blobs it finds, pre_command_base_commit the HEAD the
\* pre-command hook captured (Initial: none).
post_reset_hook(args, st, pre_command_base_commit) ==
    LET tree_ish == extract_tree_ish(args)
        pathspecs == extract_pathspecs(args)
        old_head_sha == pre_command_base_commit
        new_head_sha == head
        target_commit_sha == resolve_tree_ish_to_commit(tree_ish)
    IN  IF old_head_sha = Initial \/ new_head_sha = Initial \/ target_commit_sha = Initial
        THEN st
        ELSE IF args.mode = "hard"
        THEN handle_reset_hard(st, old_head_sha, target_commit_sha)
        ELSE IF pathspecs # <<>>
        THEN handle_reset_pathspec_preserve_working_dir(st, old_head_sha,
                 target_commit_sha, new_head_sha, pathspecs)
        ELSE handle_reset_preserve_working_dir(st, old_head_sha, target_commit_sha,
                                               new_head_sha)

\* ------------------------------------------------------------ rewrite log
\* The file .git/ai/rewrite_log: one JSON document per line, the newest
\* event first.
MAX_EVENTS == 200

\* The variants of RewriteLogEvent that the model writes, in the order of
\* the enum; serde tries them in this order (#[serde(untagged)]).
Variants == <<"ResetSoft", "ResetHard", "CommitAmend", "Commit">>

\* The one field of each struct variant, the key of its JSON object.
VariantKey(variant) ==
    CASE variant = "ResetSoft" -> "reset_soft"
      [] variant = "ResetHard" -> "reset_hard"
      [] variant = "CommitAmend" -> "commit_amend"
      [] variant = "Commit" -> "commit"

\* The fields of each event struct that have to be there, and those of type
\* Option, which serde takes as None when they are missing or null.
RequiredFields(variant) ==
    CASE variant = "ResetSoft" -> {"target_commit", "previous_head", "success"}
      [] variant = "ResetHard" -> {"target_commit", "previous_head", "success"}
      [] variant = "CommitAmend" -> {"original_commit", "amended_commit_sha"}
      [] variant = "Commit" -> {"commit_sha"}

\* The JSON null; a commit sha is a number of the model.
JsonNull == -1

\* Constructors of RewriteLogEvent.  base_commit is Initial for None.
reset_soft(target_commit, previous_head, success) ==
    [variant |-> "ResetSoft", target_commit |-> target_commit,
     previous_head |-> previous_head, success |-> success]
reset_hard(target_commit, previous_head, success) ==
    [variant |-> "ResetHard", target_commit |-> target_commit,
     previous_head |-> previous_head, success |-> success]
commit_amend(original_commit, amended_commit_sha) ==
    [variant |-> "CommitAmend", original_commit |-> original_commit,
     amended_commit_sha |-> amended_commit_sha]
commit(base_commit, commit_sha) ==
    [variant |-> "Commit", base_commit |-> base_commit, commit_sha |-> commit_sha]

\* A line of the file: a JSON object with its members, or text that is no
\* JSON document, an empty line, a line of spaces, or bytes that are not
\* UTF-8.
JsonLine(members) == [text |-> "json", members |-> members]
TextLine(text) == [text |-> text, members |-> <<>>]
Member(name, value) == [name |-> name, value |-> value]

\* serde_json::to_string of an event: {"<key>":{<fields>}}, None as null.
to_string(event) ==
    JsonLine(<<Member(VariantKey(event.variant),
        CASE event.variant = "Commit" ->
                [base_commit |-> IF event.base_commit = Initial THEN JsonNull
                                 ELSE event.base_commit,
                 commit_sha |-> event.commit_sha]
          [] event.variant = "CommitAmend" ->
                [original_commit |-> event.original_commit,
                 amended_commit_sha |-> event.amended_commit_sha]
          [] OTHER ->
                [target_commit |-> event.target_commit,
                 previous_head |-> event.previous_head, success |-> event.success])>>)

\* What from_str gives for a line that is no event.
NoEvent == [variant |-> "none"]

\* The value of the member that makes the object a variant, NoEvent when
\* the object has no such member: the key is there, the required fields are
\* there and are not null.
VariantValue(line, variant) ==
    LET hits == {i \in 1..Len(line.members) :
                    /\ line.members[i].name = VariantKey(variant)
                    /\ RequiredFields(variant) \subseteq DOMAIN line.members[i].value
                    /\ \A field \in RequiredFields(variant) \ {"success"} :
                           line.members[i].value[field] # JsonNull}
    IN  IF hits = {} THEN NoEvent
        ELSE line.members[CHOOSE i \in hits : \A j \in hits : i <= j].value

\* serde_json::from_str::<RewriteLogEvent>: the first variant that the
\* object satisfies; members and fields that the variant does not know are
\* ignored.
from_str(line) ==
    IF line.text # "json" THEN NoEvent
    ELSE LET fits == {k \in 1..Len(Variants) : VariantValue(line, Variants[k]) # NoEvent}
         IN  IF fits = {} THEN NoEvent
             ELSE LET variant == Variants[CHOOSE k \in fits : \A j \in fits : k <= j]
                      value == VariantValue(line, variant)
                  IN  CASE variant = "Commit" ->
                              commit(IF "base_commit" \in DOMAIN value
                                        /\ value.base_commit # JsonNull
                                     THEN value.base_commit ELSE Initial,
                                     value.commit_sha)
                        [] variant = "CommitAmend" ->
                              commit_amend(value.original_commit, value.amended_commit_sha)
                        [] variant = "ResetSoft" ->
                              reset_soft(value.target_commit, value.previous_head,
                                         value.success)
                        [] variant = "ResetHard" ->
                              reset_hard(value.target_commit, value.previous_head,
                                         value.success)

\* The first n elements of a sequence: Vec::truncate.
truncate(s, n) == IF Len(s) > n THEN SubSeq(s, 1, n) ELSE s

\* line.trim().is_empty().
IsBlank(line) == line.text \in {"empty", "spaces"}

\* The events of the lines that parse, in the order of the lines.
WellFormedEvents(lines) ==
    LET parsed == [i \in 1..Len(lines) |-> from_str(lines[i])]
    IN  SelectSeq(parsed, LAMBDA event : event # NoEvent)

deserialize_events_from_jsonl(lines) == truncate(WellFormedEvents(lines), MAX_EVENTS)

\* The file: whether it exists, its lines and whether the last line ends
\* with a newline.
NoFile == [exists |-> FALSE, lines |-> <<>>, final_newline |-> FALSE]
FileOf(lines, final_newline) ==
    [exists |-> TRUE, lines |-> lines, final_newline |-> final_newline]

\* std::fs::read_to_string: an error when the bytes are not UTF-8.
read_to_string(file) ==
    IF \E i \in 1..Len(file.lines) : file.lines[i].text = "invalid_utf8"
    THEN [ok |-> FALSE, lines |-> <<>>]
    ELSE [ok |-> TRUE, lines |-> file.lines]

\* append_event_to_file with the new event after the events read.
new_content_oldest_first(file, new_event) ==
    LET new_event_json == to_string(new_event)
        existing_content == read_to_string(file)
    IN  IF ~file.exists
        THEN [result |-> Ok, file |-> FileOf(<<new_event_json>>, TRUE)]
        ELSE IF ~existing_content.ok
        THEN [result |-> IoError, file |-> file]
        ELSE IF \A i \in 1..Len(existing_content.lines) : IsBlank(existing_content.lines[i])
        THEN [result |-> Ok, file |-> FileOf(<<new_event_json>>, TRUE)]
        ELSE LET existing_events == deserialize_events_from_jsonl(existing_content.lines)
                 lines == [i \in 1..Len(existing_events) |-> to_string(existing_events[i])]
                          \o <<new_event_json>>
             IN  [result |-> Ok, file |-> FileOf(truncate(lines, MAX_EVENTS), FALSE)]

\* What append_event_to_file decides to write from what it finds: the new
\* event alone when there is no file or the file is blank, else the new
\* event and the events read, cut to MAX_EVENTS lines.  result is the error
\* when the file cannot be read.
new_content(file, new_event) ==
    LET new_event_json == to_string(new_event)
        existing_content == read_to_string(file)
    IN  IF ~file.exists
        THEN [result |-> Ok, file |-> FileOf(<<new_event_json>>, TRUE)]
        ELSE IF ~existing_content.ok
        THEN [result |-> IoError, file |-> file]
        ELSE IF \A i \in 1..Len(existing_content.lines) : IsBlank(existing_content.lines[i])
        THEN [result |-> Ok, file |-> FileOf(<<new_event_json>>, TRUE)]
        ELSE LET existing_events == deserialize_events_from_jsonl(existing_content.lines)
                 lines == <<new_event_json>> \o
                          [i \in 1..Len(existing_events) |-> to_string(existing_events[i])]
             IN  [result |-> Ok, file |-> FileOf(truncate(lines, MAX_EVENTS), FALSE)]

\* append_event_to_file run by one process alone: the file after it and
\* its result.
append_event_to_file(file, new_event) == new_content(file, new_event)

\* -------------------------------------------------- parse_diff_added_lines
\* A line of a diff is the sequence of its characters.
IsPrefix(prefix, s) == Len(prefix) <= Len(s) /\ SubSeq(s, 1, Len(prefix)) = prefix

Digits == <<"0", "1", "2", "3", "4", "5", "6", "7", "8", "9">>
IsDigit(c) == \E d \in 1..10 : Digits[d] = c
DigitValue(c) == (CHOOSE d \in 1..10 : Digits[d] = c) - 1

\* The decimal digits of a number, as git prints it.
RECURSIVE Decimal(_)
Decimal(n) == IF n < 10 THEN <<Digits[n + 1]>> ELSE Decimal(n \div 10) \o <<Digits[(n % 10) + 1]>>

\* str::parse::<u32>: digits only and at least one; -1 is the error.
RECURSIVE DigitsValue(_, _)
DigitsValue(s, acc) ==
    IF s = <<>> THEN acc ELSE DigitsValue(Tail(s), acc * 10 + DigitValue(Head(s)))
parse_u32(s) ==
    IF s # <<>> /\ \A i \in 1..Len(s) : IsDigit(s[i]) THEN DigitsValue(s, 0) ELSE -1

\* The pieces of s between the occurrences of the character sep: str::split.
RECURSIVE split(_, _)
split(s, sep) ==
    IF \A i \in 1..Len(s) : s[i] # sep THEN <<s>>
    ELSE LET i == CHOOSE i \in 1..Len(s) : s[i] = sep /\ \A j \in 1..(i - 1) : s[j] # sep
         IN  <<SubSeq(s, 1, i - 1)>> \o split(SubSeq(s, i + 1, Len(s)), sep)

\* str::split_whitespace: the pieces that are not empty.
split_whitespace(s) == SelectSeq(split(s, " "), LAMBDA piece : piece # <<>>)

\* line.split("@@"): the pieces between the occurrences of "@@".
RECURSIVE split_at_at(_)
split_at_at(s) ==
    LET at == {i \in 1..(Len(s) - 1) : s[i] = "@" /\ s[i + 1] = "@"}
    IN  IF at = {} THEN <<s>>
        ELSE LET i == CHOOSE i \in at : \A j \in at : i <= j
             IN  <<SubSeq(s, 1, i - 1)>> \o split_at_at(SubSeq(s, i + 2, Len(s)))

\* str::trim_start_matches('+').
RECURSIVE trim_start_plus(_)
trim_start_plus(s) == IF s # <<>> /\ Head(s) = "+" THEN trim_start_plus(Tail(s)) ELSE s

\* parse_hunk_header: the new-side line numbers of a hunk header; None when
\* the header does not parse.
None == [some |-> FALSE, lines |-> <<>>]
Some(lines) == [some |-> TRUE, lines |-> lines]

parse_hunk_header(line) ==
    LET parts == split_at_at(line)
    IN  IF Len(parts) < 2 THEN None
        ELSE LET ranges == split_whitespace(parts[2])
                 plus == {k \in 1..Len(ranges) : Head(ranges[k]) = "+"}
             IN  IF Len(ranges) < 2 \/ plus = {} THEN None
                 ELSE LET new_range == trim_start_plus(
                                           ranges[CHOOSE k \in plus : \A j \in plus : k <= j])
                          new_parts == split(new_range, ",")
                          start == parse_u32(new_parts[1])
                          count == IF Len(new_parts) > 1 THEN parse_u32(new_parts[2]) ELSE 1
                      IN  IF start = -1 \/ count = -1 THEN None
                          ELSE IF count = 0 THEN Some(<<>>)
                          ELSE Some([i \in 1..count |-> start + i - 1])

PlusPlusPlusB == <<"+", "+", "+", " ", "b", "/">>
PlusPlusPlusDevNull == <<"+", "+", "+", " ", "/", "d", "e", "v", "/", "n", "u", "l", "l">>
AtAtSpace == <<"@", "@", " ">>

\* The loop of parse_diff_added_lines from line k on: st is the current
\* file (<<>>: none) and the map so far, a function on the files it has an
\* entry for.
RECURSIVE ParseLines(_, _, _)
ParseLines(lines, k, st) ==
    IF k > Len(lines) THEN st
    ELSE LET line == lines[k]
             next ==
                IF IsPrefix(PlusPlusPlusB, line)
                THEN [st EXCEPT !.current_file = SubSeq(line, 7, Len(line))]
                ELSE IF IsPrefix(PlusPlusPlusDevNull, line)
                THEN [st EXCEPT !.current_file = <<>>]
                ELSE IF IsPrefix(AtAtSpace, line) /\ st.current_file # <<>>
                        /\ parse_hunk_header(line).some
                THEN LET file == st.current_file
                         old == IF file \in DOMAIN st.result THEN st.result[file] ELSE <<>>
                         new == old \o parse_hunk_header(line).lines
                     IN  [st EXCEPT !.result =
                            [p \in DOMAIN st.result \cup {file} |->
                                IF p = file THEN new ELSE st.result[p]]]
                ELSE st
         IN  ParseLines(lines, k + 1, next)

\* parse_diff_added_lines: the map of the loop, every list sorted and
\* without duplicates.
parse_diff_added_lines(diff_output) ==
    LET st == ParseLines(diff_output, 1, [current_file |-> <<>>, result |-> <<>>])
    IN  [p \in DOMAIN st.result |-> SetToSortedSeq(SeqToSet(st.result[p]))]

\* ----------------------------------------------- get_commit_default_author
\* A string is the sequence of its characters; a variable of the
\* environment, a key of the configuration or an Option<String> is Unset or
\* holds one.
Unset == [set |-> FALSE, value |-> <<>>]
Value(s) == [set |-> TRUE, value |-> s]

\* str::trim.
RECURSIVE trim_start(_)
trim_start(s) == IF s # <<>> /\ Head(s) = " " THEN trim_start(Tail(s)) ELSE s
RECURSIVE trim_end(_)
trim_end(s) ==
    IF s # <<>> /\ s[Len(s)] = " " THEN trim_end(SubSeq(s, 1, Len(s) - 1)) ELSE s
trim(s) == trim_end(trim_start(s))

\* The value trimmed when the source is set and not blank.
NotBlank(source) ==
    IF source.set /\ trim(source.value) # <<>> THEN Value(trim(source.value)) ELSE Unset

\* The first of two sources that has a value.
OrElse(first, second) == IF first.set THEN first ELSE second

\* The part of EMAIL before its first '@', untrimmed: the name when no
\* other source has one.
NamePart(email) ==
    LET at == {i \in 1..Len(email.value) : email.value[i] = "@"}
    IN  IF ~email.set \/ trim(email.value) = <<>> \/ at = {} THEN Unset
        ELSE LET at_pos == CHOOSE i \in at : \A j \in at : i <= j
             IN  IF at_pos = 1 THEN Unset ELSE Value(SubSeq(email.value, 1, at_pos - 1))

\* The match that formats the author string.
FormatAuthor(author_name, author_email) ==
    IF author_name.set /\ author_email.set
    THEN author_name.value \o <<" ", "<">> \o author_email.value \o <<">">>
    ELSE IF author_name.set THEN author_name.value
    ELSE IF author_email.set THEN author_email.value
    ELSE <<"u", "n", "k", "n", "o", "w", "n">>

\* The function with EMAIL consulted before the configuration.
get_commit_default_author_email_first(env, config, resolved_author) ==
    IF resolved_author.set /\ trim(resolved_author.value) # <<>>
    THEN [author_name |-> Unset, author_email |-> Unset,
          result |-> trim(resolved_author.value)]
    ELSE LET author_name == OrElse(NotBlank(env.GIT_AUTHOR_NAME),
                                OrElse(NamePart(env.EMAIL), NotBlank(config.user_name)))
             author_email == OrElse(NotBlank(env.GIT_AUTHOR_EMAIL),
                                OrElse(NotBlank(env.EMAIL), NotBlank(config.user_email)))
         IN  [author_name |-> author_name, author_email |-> author_email,
              result |-> FormatAuthor(author_name, author_email)]

\* get_commit_default_author: the author that --author resolves to, or else
\* the name and the email from the environment and the configuration.
get_commit_default_author(env, config, resolved_author) ==
    IF resolved_author.set /\ trim(resolved_author.value) # <<>>
    THEN [author_name |-> Unset, author_email |-> Unset,
          result |-> trim(resolved_author.value)]
    ELSE LET name1 == NotBlank(env.GIT_AUTHOR_NAME)
             name2 == IF name1.set THEN name1 ELSE NotBlank(config.user_name)
             email1 == NotBlank(env.GIT_AUTHOR_EMAIL)
             email2 == IF email1.set THEN email1 ELSE NotBlank(config.user_email)
             use_EMAIL == (~name2.set \/ ~email2.set) /\ NotBlank(env.EMAIL).set
             author_name ==
                IF use_EMAIL /\ ~name2.set THEN NamePart(env.EMAIL) ELSE name2
             author_email ==
                IF use_EMAIL /\ ~email2.set THEN NotBlank(env.EMAIL) ELSE email2
         IN  [author_name |-> author_name, author_email |-> author_email,
              result |-> FormatAuthor(author_name, author_email)]

\* ---------------------------------------------------------------- history
NoProjection ==
    [filtered_working_log |-> <<>>,
     raw |-> NoAttestations, committed_hunks |-> NoLines, unstaged_hunks |-> NoLines,
     attestations |-> NoAttestations, has_unstaged_ai_lines |-> FALSE]

NoLast ==
    [op |-> "init", ok |-> FALSE, amend |-> FALSE, base |-> Initial, sha |-> Initial,
     projection |-> NoProjection, parent_log |-> <<>>, note_before |-> NoNote,
     prev_carry |-> NoLines]

Did(op) == [NoLast EXCEPT !.op = op]

\* Repository::diff_workdir_added_lines: the lines of the working tree that
\* git diff reports as added over a tree.
diff_workdir_added_lines(current_tree, file) ==
    InsertedLines(current_tree[file], workdir[file])

\* The lines of the working tree that the working log gives to an agent and
\* that are not in the commit.
UnstagedAiLines(raw, current_tree) ==
    [file \in Files |->
        {x \in diff_workdir_added_lines(current_tree, file) \X AiAuthors :
            x[1] \in AttLines(raw[file], x[2])}]

\* What the hooks may change.
Tracked(lg, bl, nts, rl) == [logs |-> lg, blobs |-> bl, notes |-> nts, rewrite_log |-> rl]

\* The wrapper before an invocation.  pc is the position in handle_git,
\* "idle" before the invocation and "done" when the process has ended; the
\* other fields keep what the invocation was and saw.
WrapperIdle ==
    [pc |-> "idle", command |-> "none", hooks |-> FALSE, amend |-> FALSE,
     args |-> ResetArgs("none", <<>>), pre_command_base_commit |-> Initial,
     pre_result |-> Ok, child |-> "none", target |-> Initial, events |-> <<>>,
     termination |-> "none", before |-> Tracked(<<>>, <<>>, <<>>, <<>>)]

\* No checkpoint command has run yet.
NoRan ==
    [op |-> "none", reset |-> FALSE, author |-> Human, base |-> Initial, unmerged |-> {},
     workdir |-> EmptyTree, after_same |-> FALSE, logs_before |-> <<>>,
     blobs_before |-> <<>>, logs_after |-> <<>>, blobs_after |-> <<>>, result |-> Ok,
     entries_len |-> 0, files |-> {}]

TrackerIdle ==
    [content |-> <<>>, attrs |-> <<>>, steps |-> 0, old_content |-> <<>>,
     old_attrs |-> <<>>, author |-> Human, ts |-> 1,
     entry |-> WorkingLogEntry("f", <<>>, <<>>, <<>>)]

\* No process is inside append_event_to_file; a process there has read
\* the file or not yet, and holds what it is going to write.
WriterIdle == [pc |-> "idle", event |-> NoEvent, plan |-> NoFile, result |-> Ok]
Writers == {1, 2}
NoAppends == [initial |-> NoFile, before |-> NoFile, calls |-> <<>>, last_writer |-> 0]

\* Repository::commit has not been called: the arguments it is called
\* with, where it is, and what it saw and returned.
CommitterIdle ==
    [pc |-> "idle", parents |-> <<>>, update_ref |-> FALSE, new_commit |-> Initial,
     old_tip |-> Initial, tip_at_update |-> Initial, tip_after |-> Initial,
     result |-> "none", other_moves |-> 0]

\* The components followed on their own, at rest.
\* No call of diff_added_lines.
ParserIdle == [pc |-> "idle", diff |-> <<>>, diff_output |-> <<>>, result |-> <<>>]

\* No call of get_commit_default_author.
AuthorCallIdle ==
    [pc |-> "idle",
     env |-> [GIT_AUTHOR_NAME |-> Unset, GIT_AUTHOR_EMAIL |-> Unset, EMAIL |-> Unset],
     config |-> [user_name |-> Unset, user_email |-> Unset],
     resolved_author |-> Unset,
     author_name |-> Unset, author_email |-> Unset, result |-> <<>>]

\* The signals proxy_to_git forwards, in the order their handlers are
\* installed and removed, and the process before it runs proxy_to_git.
ForwardedSignals == <<"SIGTERM", "SIGINT", "SIGHUP", "SIGQUIT">>
ProxyNotRun ==
    [pc |-> "idle", setpgid |-> FALSE, CHILD_PGID |-> 0,
     handlers |-> [k \in 1..Len(ForwardedSignals) |-> "SIG_DFL"],
     wrapper |-> "running", child |-> "none", status |-> "none",
     signals |-> 0, last_signal |-> "none", forwarded |-> 0, unforwarded |-> 0]

\* No rebase.
NoRebase ==
    [pc |-> "idle", base |-> <<>>, onto |-> <<>>, squash |-> FALSE,
     originals |-> <<>>, rewritten |-> <<>>]

\* No post_commit.
NoCommitRun ==
    [pc |-> "idle", debug_assertions |-> FALSE, has_unstaged_ai_lines |-> FALSE,
     parent_before |-> <<>>, parent_log |-> <<>>, parent_exists |-> FALSE,
     note |-> FALSE, k |-> 1, appended |-> <<>>, result |-> "none", failed |-> "none",
     deleted_after |-> [note |-> FALSE, appended |-> <<>>]]

\* No push hook has run.
NoPushRun ==
    [pc |-> "idle", command_args |-> <<>>, exit_success |-> FALSE, configured |-> <<>>,
     upstream |-> [some |-> FALSE, name |-> ""],
     remote |-> [some |-> FALSE, name |-> ""], pushed |-> <<>>]

RewriteIdle ==
    /\ rewrite_file = NoFile
    /\ writers = [p \in Writers |-> WriterIdle]
    /\ appends = NoAppends
RefIdle ==
    /\ ref_tip = Initial
    /\ committer = CommitterIdle
DiffIdle == parser = ParserIdle
AuthorIdle == author_call = AuthorCallIdle
ProxyIdle == proxy = ProxyNotRun
RebaseIdle == rebase = NoRebase
PostcommitIdle == commit_run = NoCommitRun
PushIdle == push_run = NoPushRun

\* All of them but the one that a specification follows.
RestIdle(me) ==
    /\ me = "rewrite" \/ RewriteIdle
    /\ me = "ref" \/ RefIdle
    /\ me = "diff" \/ DiffIdle
    /\ me = "author" \/ AuthorIdle
    /\ me = "proxy" \/ ProxyIdle
    /\ me = "rebase" \/ RebaseIdle
    /\ me = "postcommit" \/ PostcommitIdle
    /\ me = "push" \/ PushIdle
SideIdle == RestIdle("none")

\* ------------------------------------------------------------------- Init
Budget(edits, checkpoints, commits) ==
    [edits |-> edits, checkpoints |-> checkpoints, commits |-> commits]

Start ==
    /\ \E has_commit \in BOOLEAN, tf \in Contents, tg \in {<<>>} :
        /\ has_commit \/ tf = <<>>
        /\ head = IF has_commit THEN 1 ELSE Initial
        /\ nCommits = IF has_commit THEN 1 ELSE 0
        /\ tree = [c \in CommitIds |->
                    IF has_commit /\ c = 1 THEN [f \in Files |-> IF f = "f" THEN tf ELSE tg]
                    ELSE EmptyTree]
        /\ index = [f \in Files |-> IF f = "f" THEN tf ELSE tg]
        /\ workdir = [f \in Files |-> IF f = "f" THEN tf ELSE tg]
    /\ parent = [c \in CommitIds |-> Initial]
    /\ logs = [b \in Bases |-> <<>>]
    /\ blobs = [b \in Bases |-> {}]
    /\ notes = [c \in CommitIds |-> NoNote]
    /\ rewrite_log = <<>>
    /\ clock = 2
    /\ debug_assertions \in BOOLEAN
    /\ nEdits = 0
    /\ nCheckpoints = 0
    /\ nCommitRuns = 0
    /\ carry = NoLines
    /\ last = NoLast
    /\ tracker = TrackerIdle
    /\ bare = FALSE
    /\ unmerged = {}
    /\ ran = NoRan
    /\ wrapper = WrapperIdle
    /\ SideIdle

Init ==
    /\ Start
    /\ budget = Budget(MaxEdits, MaxCheckpoints, MaxCommits)

\* Runs with more checkpoints and fewer commits.
InitSplit ==
    /\ Start
    /\ budget = Budget(MaxEdits, MaxCheckpointsSplit, MaxCommitsSplit)

\* ---------------------------------------------------------------- actions
\* The user or an agent rewrites a file of the working tree.
Edit ==
    /\ nEdits < budget.edits
    /\ ~bare
    /\ wrapper.pc = "idle"
    /\ \E file \in Files :
       \E content \in ContentsOf(file) :
        /\ content # workdir[file]
        /\ workdir' = [workdir EXCEPT ![file] = content]
        /\ carry' = [carry EXCEPT ![file] = {}]
    /\ nEdits' = nEdits + 1
    /\ last' = Did("idle")
    /\ UNCHANGED <<head, nCommits, parent, tree, index, logs, blobs, notes, rewrite_log,
                   clock, debug_assertions, budget, nCheckpoints, nCommitRuns, tracker,
                   bare, unmerged, ran, wrapper, side_vars>>

\* git add -A.
Stage ==
    /\ index # workdir \/ unmerged # {}
    /\ ~bare
    /\ wrapper.pc = "idle"
    /\ index' = workdir
    /\ unmerged' = {}
    /\ last' = Did("idle")
    /\ UNCHANGED <<head, nCommits, parent, tree, workdir, logs, blobs, notes, rewrite_log,
                   clock, debug_assertions, budget, nEdits, nCheckpoints, nCommitRuns,
                   carry, tracker, bare, ran, wrapper, side_vars>>

\* git-ai checkpoint, by the human or for an agent run.
Checkpoint ==
    /\ nCheckpoints < budget.checkpoints
    /\ wrapper.pc = "idle"
    /\ \E author_id \in RunAuthors :
       \E r \in {checkpoint_run(logs, blobs, author_id, clock)} :
        /\ logs' = r.logs
        /\ blobs' = r.blobs
        /\ clock' = r.clock
    /\ nCheckpoints' = nCheckpoints + 1
    /\ last' = Did("idle")
    /\ UNCHANGED <<head, nCommits, parent, tree, index, workdir, notes, rewrite_log,
                   debug_assertions, budget, nEdits, nCommitRuns, carry, tracker,
                   bare, unmerged, ran, wrapper, side_vars>>

\* git commit [--amend] through the wrapper: the pre-command hook takes a
\* human checkpoint, git commits the index, the post-command hook records
\* the rewrite event and reconciles authorship.
Commit ==
    /\ nCommitRuns < budget.commits
    /\ wrapper.pc = "idle"
    /\ \E is_amend \in BOOLEAN :
       \E pre \in {checkpoint_run(logs, blobs, Human, clock)} :
        /\ is_amend => head # Initial
        /\ LET original_commit == head
               new_parent == IF is_amend THEN parent[head] ELSE head
               exit_success == index # TreeOf(new_parent)
               new_sha == nCommits + 1
               events == commit_post_command_hook(exit_success, is_amend,
                                                  original_commit, new_sha)
           IN  /\ clock' = pre.clock
               /\ IF exit_success
                  THEN /\ head' = new_sha
                       /\ nCommits' = new_sha
                       /\ parent' = [parent EXCEPT ![new_sha] = new_parent]
                       /\ tree' = [tree EXCEPT ![new_sha] = index]
                  ELSE UNCHANGED <<head, nCommits, parent, tree, side_vars>>
               /\ IF events = <<>>
                  THEN /\ logs' = pre.logs
                       /\ blobs' = pre.blobs
                       /\ last' = [Did("commit") EXCEPT
                                      !.ok = exit_success, !.amend = is_amend,
                                      !.base = original_commit,
                                      !.sha = IF exit_success THEN new_sha ELSE Initial]
                       /\ UNCHANGED <<notes, rewrite_log, carry, side_vars>>
                  ELSE \E r \in {handle_rewrite_log_event(pre.logs, pre.blobs, notes,
                                                          events[1], index)} :
                           /\ rewrite_log' = events \o rewrite_log
                           /\ logs' = r.logs
                           /\ blobs' = r.blobs
                           /\ notes' = r.notes
                           /\ carry' = UnstagedAiLines(r.projection.raw, index)
                           /\ last' = [op |-> "commit", ok |-> TRUE, amend |-> is_amend,
                                       base |-> original_commit, sha |-> new_sha,
                                       projection |-> r.projection,
                                       parent_log |-> pre.logs[original_commit],
                                       note_before |-> NoNote, prev_carry |-> carry]
    /\ nCommitRuns' = nCommitRuns + 1
    /\ UNCHANGED <<index, workdir, debug_assertions, budget, nEdits, nCheckpoints,
                   tracker,
                   bare, unmerged, ran, wrapper, side_vars>>

\* The reconciliation of the newest commit event runs a second time, right
\* after the first run.
Reprocess ==
    /\ nCommitRuns < budget.commits
    /\ last.op = "commit" /\ last.ok /\ ~last.amend
    /\ \E event \in {rewrite_log[1]} :
       \E r \in {handle_rewrite_log_event(logs, blobs, notes, event,
                                          tree[event.commit_sha])} :
        /\ rewrite_log' = <<event>> \o rewrite_log
        /\ logs' = r.logs
        /\ blobs' = r.blobs
        /\ notes' = r.notes
        /\ last' = [last EXCEPT !.op = "rerun", !.note_before = notes[event.commit_sha]]
    /\ nCommitRuns' = nCommitRuns + 1
    /\ UNCHANGED <<head, nCommits, parent, tree, index, workdir, clock, debug_assertions,
                   budget, nEdits, nCheckpoints, carry, tracker,
                   bare, unmerged, ran, wrapper, side_vars>>

Next == Edit \/ Stage \/ Checkpoint \/ Commit \/ Reprocess

Spec == Init /\ [][Next]_vars

\* Runs that end with their one commit: no event is handled twice.
NextSplit == Edit \/ Stage \/ Checkpoint \/ Commit

SpecSplit == InitSplit /\ [][NextSplit]_vars

\* ------------------------------------------- the checkpoint command alone
\* A repository with or without a working tree, before any checkpoint.
InitCheckpoint ==
    /\ \E has_commit \in BOOLEAN, tf \in Contents, is_bare \in BOOLEAN :
        /\ has_commit \/ tf = <<>>
        /\ bare = is_bare
        /\ head = IF has_commit THEN 1 ELSE Initial
        /\ nCommits = IF has_commit THEN 1 ELSE 0
        /\ tree = [c \in CommitIds |->
                    IF has_commit /\ c = 1 THEN [f \in Files |-> IF f = "f" THEN tf ELSE <<>>]
                    ELSE EmptyTree]
        /\ index = [f \in Files |-> IF f = "f" /\ ~is_bare THEN tf ELSE <<>>]
        /\ workdir = [f \in Files |-> IF f = "f" /\ ~is_bare THEN tf ELSE <<>>]
    /\ parent = [c \in CommitIds |-> Initial]
    /\ logs = [b \in Bases |-> <<>>]
    /\ blobs = [b \in Bases |-> {}]
    /\ notes = [c \in CommitIds |-> NoNote]
    /\ rewrite_log = <<>>
    /\ clock = 2
    /\ debug_assertions = FALSE
    /\ budget = Budget(MaxEditsCheckpoint, MaxCheckpointRuns, 0)
    /\ nEdits = 0
    /\ nCheckpoints = 0
    /\ nCommitRuns = 0
    /\ carry = NoLines
    /\ last = NoLast
    /\ tracker = TrackerIdle
    /\ unmerged = {}
    /\ ran = NoRan
    /\ wrapper = WrapperIdle
    /\ SideIdle

\* A merge, a cherry-pick or a stash pop stops on a conflict in a file: git
\* reports the file as unmerged and leaves its conflicted text in the
\* working tree.
Conflict ==
    /\ nEdits < budget.edits
    /\ ~bare
    /\ wrapper.pc = "idle"
    /\ head # Initial
    /\ \E file \in Files \ unmerged :
       \E content \in ContentsOf(file) \ {<<>>} :
        /\ workdir' = [workdir EXCEPT ![file] = content]
        /\ unmerged' = unmerged \cup {file}
        /\ carry' = [carry EXCEPT ![file] = {}]
    /\ nEdits' = nEdits + 1
    /\ last' = Did("idle")
    /\ UNCHANGED <<head, nCommits, parent, tree, index, logs, blobs, notes, rewrite_log,
                   clock, debug_assertions, budget, nCheckpoints, nCommitRuns, tracker,
                   bare, ran, wrapper, side_vars>>

\* git-ai checkpoint [--reset] as a command of its own, by the human or for
\* an agent run, with what it did kept in ran.
CheckpointCommand ==
    /\ nCheckpoints < budget.checkpoints
    /\ wrapper.pc = "idle"
    /\ \E author_id \in RunAuthors, reset \in BOOLEAN :
       \E r \in {run(logs, blobs, author_id, clock, reset, FALSE)} :
        /\ logs' = r.logs
        /\ blobs' = r.blobs
        /\ clock' = r.clock
        /\ ran' = [op |-> "checkpoint", reset |-> reset, author |-> author_id,
                   base |-> head, unmerged |-> unmerged, workdir |-> workdir,
                   after_same |-> /\ ran.op = "checkpoint" /\ ran.result = Ok
                                  /\ ~ran.reset /\ ~reset
                                  /\ ran.base = head /\ ran.workdir = workdir
                                  /\ ran.unmerged = {} /\ unmerged = {},
                   logs_before |-> logs, blobs_before |-> blobs,
                   logs_after |-> r.logs, blobs_after |-> r.blobs,
                   result |-> r.result, entries_len |-> r.entries_len,
                   files |-> r.files]
    /\ nCheckpoints' = nCheckpoints + 1
    /\ last' = Did("idle")
    /\ UNCHANGED <<head, nCommits, parent, tree, index, workdir, notes, rewrite_log,
                   debug_assertions, budget, nEdits, nCommitRuns, carry, tracker, bare,
                   unmerged, wrapper, side_vars>>

NextCheckpoint == Edit \/ Stage \/ Conflict \/ CheckpointCommand

SpecCheckpoint == InitCheckpoint /\ [][NextCheckpoint]_vars

\* ------------------------------------------------------------ the wrapper
\* A bare repository whose HEAD holds the file f.
StartBare ==
    /\ \E tf \in Contents \ {<<>>} :
        tree = [c \in CommitIds |->
                  IF c = 1 THEN [f \in Files |-> IF f = "f" THEN tf ELSE <<>>]
                  ELSE EmptyTree]
    /\ head = 1
    /\ nCommits = 1
    /\ index = EmptyTree
    /\ workdir = EmptyTree
    /\ parent = [c \in CommitIds |-> Initial]
    /\ logs = [b \in Bases |-> <<>>]
    /\ blobs = [b \in Bases |-> {}]
    /\ notes = [c \in CommitIds |-> NoNote]
    /\ rewrite_log = <<>>
    /\ clock = 2
    /\ debug_assertions = FALSE
    /\ nEdits = 0
    /\ nCheckpoints = 0
    /\ nCommitRuns = 0
    /\ carry = NoLines
    /\ last = NoLast
    /\ tracker = TrackerIdle
    /\ bare = TRUE
    /\ unmerged = {}
    /\ ran = NoRan
    /\ wrapper = WrapperIdle
    /\ SideIdle

\* Runs that end with one git commit followed through the wrapper.
InitWrapper ==
    /\ Start \/ StartBare
    /\ budget = Budget(MaxEdits, MaxCheckpoints, 0)

\* Runs on top of an empty root commit, with one commit, that end with one
\* git reset followed through the wrapper.
InitReset ==
    /\ Start
    /\ head # Initial
    /\ tree[head] = EmptyTree
    /\ ~debug_assertions
    /\ budget = Budget(MaxEdits, MaxCheckpoints, MaxCommitsSplit)

\* handle_git up to the hooks, for a git commit.  An invocation runs hooks
\* unless it only asks for help, is outside of a repository or the
\* repository is not allowed.
InvokeCommit ==
    /\ wrapper.pc = "idle"
    /\ \E hooks \in BOOLEAN, amend \in BOOLEAN :
        wrapper' = [WrapperIdle EXCEPT
                      !.pc = IF hooks THEN "pre" ELSE "git",
                      !.command = "commit", !.hooks = hooks, !.amend = amend,
                      !.before = Tracked(logs, blobs, notes, rewrite_log)]
    /\ last' = Did("idle")
    /\ UNCHANGED <<head, nCommits, parent, tree, index, workdir, logs, blobs, notes,
                   rewrite_log, clock, debug_assertions, budget, nEdits, nCheckpoints,
                   nCommitRuns, carry, tracker, bare, unmerged, ran, side_vars>>

\* handle_git up to the hooks, for a git reset: with or without a mode
\* flag, to HEAD, to HEAD~1 or to a commit named by its id, or of one path
\* to HEAD or to HEAD~1 (git reset <revision> <path>).
InvokeReset ==
    /\ wrapper.pc = "idle"
    /\ \E mode \in ResetModes,
          positional \in {<<>>, <<"HEAD~1">>} \cup {<<ToString(c)>> : c \in 1..nCommits}
                            \cup (ResetRevisions \X ResetPaths) :
        /\ Len(positional) >= 2 => mode \in {"none", "mixed"}
        /\ wrapper' = [WrapperIdle EXCEPT
                      !.pc = "pre", !.command = "reset", !.hooks = TRUE,
                      !.args = ResetArgs(mode, positional),
                      !.before = Tracked(logs, blobs, notes, rewrite_log)]
    /\ last' = Did("idle")
    /\ UNCHANGED <<head, nCommits, parent, tree, index, workdir, logs, blobs, notes,
                   rewrite_log, clock, debug_assertions, budget, nEdits, nCheckpoints,
                   nCommitRuns, carry, tracker, bare, unmerged, ran, side_vars>>

\* commit_pre_command_hook: the HEAD is captured and the human checkpoint
\* taken; exits is what the hook does to the process.
commit_pre_command_hook(lg, bl, ts, storage_fails) ==
    LET r == run(lg, bl, Human, ts, FALSE, storage_fails)
    IN  [logs |-> r.logs, blobs |-> r.blobs, clock |-> r.clock, result |-> r.result,
         pre_command_base_commit |-> head,
         exits |-> r.result \notin {Ok, BareError}]

\* run_pre_command_hooks.  The storage of the working log may fail under
\* the checkpoint of the commit hook.
RunPreCommandHooks ==
    /\ wrapper.pc = "pre"
    /\ IF wrapper.command = "commit"
       THEN \E storage_fails \in BOOLEAN :
            \E r \in {commit_pre_command_hook(logs, blobs, clock, storage_fails)} :
               /\ logs' = r.logs
               /\ blobs' = r.blobs
               /\ clock' = r.clock
               /\ wrapper' = [wrapper EXCEPT
                     !.pre_command_base_commit = r.pre_command_base_commit,
                     !.pre_result = r.result,
                     !.pc = IF r.exits THEN "done" ELSE "git",
                     !.termination = IF r.exits THEN "exit1" ELSE "none",
                     !.events = IF r.exits THEN @ \o <<"pre_start", "exit">>
                                ELSE @ \o <<"pre_start", "pre_done">>]
       ELSE /\ wrapper' = [wrapper EXCEPT
                  !.pre_command_base_commit = head,
                  !.pc = "git",
                  !.events = @ \o <<"pre_start", "pre_done">>]
            /\ UNCHANGED <<logs, blobs, clock, side_vars>>
    /\ UNCHANGED <<head, nCommits, parent, tree, index, workdir, notes, rewrite_log,
                   debug_assertions, budget, nEdits, nCheckpoints, nCommitRuns, carry,
                   last, tracker, bare, unmerged, ran, side_vars>>

\* What git reset does to HEAD, the index and the working tree when it
\* succeeds; ok is whether it can.  With paths HEAD stays and the index
\* entries of the selected paths are taken from the target; git refuses
\* paths together with --soft or --hard.
git_reset(args) ==
    LET target == resolve_tree_ish_to_commit(extract_tree_ish(args))
        Tracked_(file) == index[file] # <<>> \/ TreeOf(head)[file] # <<>>
                            \/ tree[target][file] # <<>>
        paths == GitPathspecs(args)
    IN  IF target = Initial \/ bare \/ (paths # <<>> /\ args.mode \in {"soft", "hard"})
        THEN [ok |-> FALSE, target |-> Initial, head |-> head, index |-> index,
              workdir |-> workdir]
        ELSE IF paths # <<>>
        THEN [ok |-> TRUE, target |-> target, head |-> head,
              index |-> [file \in Files |->
                           IF GitSelects(file, paths) THEN tree[target][file]
                           ELSE index[file]],
              workdir |-> workdir]
        ELSE [ok |-> TRUE, target |-> target, head |-> target,
              index |-> IF args.mode = "soft" THEN index ELSE tree[target],
              workdir |-> IF args.mode = "hard"
                          THEN [file \in Files |->
                                  IF Tracked_(file) THEN tree[target][file]
                                  ELSE workdir[file]]
                          ELSE workdir]

\* proxy_to_git: the git child is spawned and waited for.  It ends with the
\* exit code 0 when git can do what it is asked, and it may always fail or
\* be killed by a signal; then it leaves the repository as it was.
GitChild ==
    /\ wrapper.pc = "git"
    /\ \E status \in {"exit0", "exit1", "signal"} :
        /\ wrapper' = [wrapper EXCEPT
              !.child = status,
              !.target = IF wrapper.command = "reset" /\ status = "exit0"
                         THEN git_reset(wrapper.args).target ELSE Initial,
              !.pc = IF wrapper.hooks THEN "post" ELSE "exit",
              !.events = @ \o <<"spawn", "child_exit">>,
              !.before = Tracked(logs, blobs, notes, rewrite_log)]
        /\ IF status # "exit0"
           THEN UNCHANGED <<head, nCommits, parent, tree, index, workdir, unmerged, side_vars>>
           ELSE IF wrapper.command = "commit"
           THEN LET new_parent == IF wrapper.amend THEN parent[head] ELSE head
                    new_sha == nCommits + 1
                IN  /\ ~bare
                    /\ wrapper.amend => head # Initial
                    /\ index # TreeOf(new_parent)
                    /\ head' = new_sha
                    /\ nCommits' = new_sha
                    /\ parent' = [parent EXCEPT ![new_sha] = new_parent]
                    /\ tree' = [tree EXCEPT ![new_sha] = index]
                    /\ UNCHANGED <<index, workdir, unmerged, side_vars>>
           ELSE \E g \in {git_reset(wrapper.args)} :
                    /\ g.ok
                    /\ head' = g.head
                    /\ index' = g.index
                    /\ workdir' = g.workdir
                    /\ unmerged' = IF wrapper.args.mode = "soft" THEN unmerged ELSE {}
                    /\ UNCHANGED <<nCommits, parent, tree, side_vars>>
    /\ carry' = IF wrapper.command = "reset" THEN NoLines ELSE carry
    /\ UNCHANGED <<logs, blobs, notes, rewrite_log, clock, debug_assertions, budget,
                   nEdits, nCheckpoints, nCommitRuns, last, tracker, bare, ran, side_vars>>

\* How a panic ends the process: with the exit code 101 when the build
\* unwinds, with SIGABRT when it aborts.
PanicTerminations == {"exit101", "abort"}

\* run_post_command_hooks.  The rewrite log may fail to be written, and
\* handle_rewrite_log_event panics when it does.
RunPostCommandHooks ==
    /\ wrapper.pc = "post"
    /\ IF wrapper.command = "commit"
       THEN \E events \in {commit_post_command_hook(wrapper.child = "exit0", wrapper.amend,
                                                    wrapper.pre_command_base_commit, head)} :
            IF events = <<>>
            THEN /\ wrapper' = [wrapper EXCEPT
                       !.pc = "exit", !.events = @ \o <<"post_start", "post_done">>]
                 /\ UNCHANGED <<logs, blobs, notes, rewrite_log, carry, side_vars>>
            ELSE \E write_fails \in BOOLEAN :
                 IF write_fails
                 THEN /\ \E t \in PanicTerminations :
                          wrapper' = [wrapper EXCEPT
                            !.pc = "done", !.termination = t,
                            !.events = @ \o <<"post_start", "exit">>]
                      /\ UNCHANGED <<logs, blobs, notes, rewrite_log, carry, side_vars>>
                 ELSE \E r \in {handle_rewrite_log_event(logs, blobs, notes, events[1],
                                                         index)} :
                      /\ rewrite_log' = events \o rewrite_log
                      /\ logs' = r.logs
                      /\ blobs' = r.blobs
                      /\ notes' = r.notes
                      /\ carry' = UnstagedAiLines(r.projection.raw, index)
                      /\ wrapper' = [wrapper EXCEPT
                            !.pc = "exit", !.events = @ \o <<"post_start", "post_done">>]
       ELSE \E r \in {post_reset_hook(wrapper.args, [logs |-> logs, blobs |-> blobs],
                                       wrapper.pre_command_base_commit)} :
            /\ logs' = r.logs
            /\ blobs' = r.blobs
            /\ wrapper' = [wrapper EXCEPT
                  !.pc = "exit", !.events = @ \o <<"post_start", "post_done">>]
            /\ UNCHANGED <<notes, rewrite_log, carry, side_vars>>
    /\ UNCHANGED <<head, nCommits, parent, tree, index, workdir, clock, debug_assertions,
                   budget, nEdits, nCheckpoints, nCommitRuns, last, tracker, bare, unmerged,
                   ran, side_vars>>

\* exit_with_status: the signal of the child is raised again, its exit code
\* is the exit code of the wrapper.
exit_with_status(status) ==
    IF status = "signal" THEN "signal" ELSE status

ExitWithStatus ==
    /\ wrapper.pc = "exit"
    /\ wrapper' = [wrapper EXCEPT
          !.pc = "done",
          !.termination = exit_with_status(wrapper.child),
          !.events = @ \o <<"exit">>]
    /\ UNCHANGED <<head, nCommits, parent, tree, index, workdir, logs, blobs, notes,
                   rewrite_log, clock, debug_assertions, budget, nEdits, nCheckpoints,
                   nCommitRuns, carry, last, tracker, bare, unmerged, ran, side_vars>>

NextWrapper ==
    \/ Edit \/ Stage \/ Checkpoint
    \/ InvokeCommit
    \/ RunPreCommandHooks \/ GitChild \/ RunPostCommandHooks \/ ExitWithStatus

SpecWrapper == InitWrapper /\ [][NextWrapper]_vars

NextReset ==
    \/ Edit \/ Stage \/ Checkpoint \/ Commit
    \/ InvokeReset
    \/ RunPreCommandHooks \/ GitChild \/ RunPostCommandHooks \/ ExitWithStatus

SpecReset == InitReset /\ [][NextReset]_vars

\* ------------------------------------------------- the tracker on one file
\* The repository part of the state, at rest.
Idle ==
    /\ head = Initial
    /\ nCommits = 0
    /\ parent = [c \in CommitIds |-> Initial]
    /\ tree = [c \in CommitIds |-> EmptyTree]
    /\ index = EmptyTree
    /\ workdir = EmptyTree
    /\ logs = [b \in Bases |-> <<>>]
    /\ blobs = [b \in Bases |-> {}]
    /\ notes = [c \in CommitIds |-> NoNote]
    /\ rewrite_log = <<>>
    /\ clock = 2
    /\ debug_assertions = FALSE
    /\ budget = Budget(0, 0, 0)
    /\ nEdits = 0
    /\ nCheckpoints = 0
    /\ nCommitRuns = 0
    /\ carry = NoLines
    /\ last = NoLast
    /\ bare = FALSE
    /\ unmerged = {}
    /\ ran = NoRan
    /\ wrapper = WrapperIdle

\* A file as the first checkpoint of a working log finds it: the content of
\* HEAD, the lines that blame gives to an agent attributed, the rest not.
InitTracker ==
    /\ Idle
    /\ SideIdle
    /\ \E content \in Contents :
       \E who \in [1..Len(content) -> {Human, "ai1"}] :
        LET ai_lines == SetToSortedSeq({j \in 1..Len(content) : who[j] # Human})
            prev_line_attributions ==
                [i \in 1..Len(ai_lines) |->
                    [start_line |-> ai_lines[i], end_line |-> ai_lines[i],
                     author_id |-> who[ai_lines[i]]]]
        IN  tracker = [TrackerIdle EXCEPT
                !.content = content,
                !.attrs = line_attributions_to_attributions(prev_line_attributions,
                                                            content, 1)]

\* One more checkpoint of the file: make_entry_for_file from the content and
\* attributions of the previous one.
TrackerCheckpoint ==
    /\ tracker.steps < MaxTrackerSteps
    /\ \E content \in Contents, author_id \in Authors :
        /\ content # tracker.content
        /\ LET ts == tracker.ts + 1
               entry == make_entry_for_file("f", content, author_id, tracker.content,
                                            tracker.attrs, content, ts)
           IN  tracker' = [content |-> content, attrs |-> entry.attributions,
                           steps |-> tracker.steps + 1,
                           old_content |-> tracker.content, old_attrs |-> tracker.attrs,
                           author |-> author_id, ts |-> ts, entry |-> entry]
    /\ UNCHANGED <<head, nCommits, parent, tree, index, workdir, logs, blobs, notes,
                   rewrite_log, clock, debug_assertions, budget, nEdits, nCheckpoints,
                   nCommitRuns, carry, last,
                   bare, unmerged, ran, wrapper, side_vars>>

NextTracker == TrackerCheckpoint

SpecTracker == InitTracker /\ [][NextTracker]_vars

\* The bytes of line j of a content.
\* ------------------------------------------- the rewrite log on its own
\* The event of the n-th call: the commits n - 1 and n.
NewEvent(variant, n) ==
    CASE variant = "Commit" -> commit(n - 1, n)
      [] variant = "CommitAmend" -> commit_amend(n - 1, n)
      [] variant = "ResetSoft" -> reset_soft(n - 1, n, TRUE)
      [] variant = "ResetHard" -> reset_hard(n - 1, n, FALSE)

\* An event written before the run, of commits that the run does not use.
PreloadedEvent(k) ==
    IF k % 2 = 0 THEN commit(1000 + k, 1001 + k) ELSE reset_hard(1000 + k, 1001 + k, TRUE)

\* The lines a file may be made of: an event, an event of an older format
\* without the optional field, an event with a member the reader does not
\* know, an object of no variant, an event without a required field, text
\* that is no JSON, an empty line, a line of spaces, bytes that are not
\* UTF-8.
SomeLines ==
    {to_string(PreloadedEvent(1)),
     JsonLine(<<Member("commit", [commit_sha |-> 1003])>>),
     JsonLine(<<Member("origin", [commit_sha |-> 1004]),
                Member("commit_amend", [original_commit |-> 1004,
                                        amended_commit_sha |-> 1005])>>),
     JsonLine(<<Member("unknown", [commit_sha |-> 1006])>>),
     JsonLine(<<Member("commit", [base_commit |-> 1007])>>),
     TextLine("garbage"), TextLine("empty"), TextLine("spaces"),
     TextLine("invalid_utf8")}

\* n events, the newest first.
PreloadedLines(n) == [i \in 1..n |-> to_string(PreloadedEvent(n + 1 - i))]

\* The files a run may find: none, short files of any lines, and files
\* around MAX_EVENTS events, alone, around a line that does not parse and
\* before bytes that are not UTF-8.
InitialFiles ==
    {NoFile}
    \cup {FileOf(<<>>, FALSE)}
    \cup {FileOf(lines, nl) : lines \in UNION {[1..n -> SomeLines] : n \in 1..MaxFileLines},
                              nl \in BOOLEAN}
    \cup {FileOf(PreloadedLines(n), FALSE) : n \in {MAX_EVENTS - 1, MAX_EVENTS + 1}}
    \cup {FileOf(<<TextLine("garbage")>> \o PreloadedLines(MAX_EVENTS + 1)
                    \o <<TextLine("empty")>>, TRUE),
          FileOf(PreloadedLines(MAX_EVENTS + 1) \o <<TextLine("invalid_utf8")>>, TRUE)}

InitRewriteLog ==
    /\ Idle
    /\ tracker = TrackerIdle
    /\ RestIdle("rewrite")
    /\ rewrite_file \in InitialFiles
    /\ writers = [p \in Writers |-> WriterIdle]
    /\ appends = [NoAppends EXCEPT !.initial = rewrite_file]

\* One call of append_event_to_file, run to its end by one process.
AppendEvent ==
    /\ Len(appends.calls) < MaxAppends
    /\ LET n == Len(appends.calls) + 1
       IN  \E variant \in IF n <= MaxVariedAppends THEN SeqToSet(Variants)
                          ELSE {Variants[(n % Len(Variants)) + 1]} :
           \E r \in {append_event_to_file(rewrite_file, NewEvent(variant, n))} :
               /\ rewrite_file' = r.file
               /\ appends' = [appends EXCEPT
                      !.before = rewrite_file,
                      !.calls = Append(@, [event |-> NewEvent(variant, n),
                                           result |-> r.result])]
    /\ UNCHANGED <<not_rewrite, writers>>

NextRewriteLog == AppendEvent

SpecRewriteLog == InitRewriteLog /\ [][NextRewriteLog]_vars

\* ------------------------------------- two processes on the rewrite log
\* The files two concurrent appends may find: none, an empty one, and logs
\* of one and of two events.
RaceFiles ==
    {NoFile, FileOf(<<>>, FALSE)}
    \cup {FileOf(PreloadedLines(n), nl) : n \in 1..MaxRaceEvents, nl \in BOOLEAN}

\* Two wrapper processes are about to call append_event_to_file, each with
\* the event of its own commit.
InitRewriteRace ==
    /\ Idle
    /\ tracker = TrackerIdle
    /\ RestIdle("rewrite")
    /\ rewrite_file \in RaceFiles
    /\ \E variant \in [Writers -> {"Commit", "CommitAmend"}] :
        writers = [p \in Writers |->
                     [WriterIdle EXCEPT !.pc = "exists",
                                        !.event = NewEvent(variant[p], p)]]
    /\ appends = [NoAppends EXCEPT !.initial = rewrite_file]

\* file_path.exists(): without a file the event is going to be written
\* alone.
WriterExists(p) ==
    /\ writers[p].pc = "exists"
    /\ writers' = [writers EXCEPT ![p] =
          IF rewrite_file.exists THEN [@ EXCEPT !.pc = "read"]
          ELSE [@ EXCEPT !.pc = "create",
                         !.plan = new_content(rewrite_file, writers[p].event).file]]
    /\ UNCHANGED <<not_rewrite, rewrite_file, appends>>

\* read_to_string and everything up to the call of std::fs::write: what is
\* going to be written is decided from the content read.
WriterRead(p) ==
    /\ writers[p].pc = "read"
    /\ \E r \in {new_content(rewrite_file, writers[p].event)} :
        /\ writers' = [writers EXCEPT ![p] =
              IF r.result = Ok THEN [@ EXCEPT !.pc = "create", !.plan = r.file]
              ELSE [@ EXCEPT !.pc = "done", !.result = r.result]]
        /\ appends' = IF r.result = Ok THEN appends
                      ELSE [appends EXCEPT
                              !.calls = Append(@, [event |-> writers[p].event,
                                                   result |-> r.result])]
    /\ UNCHANGED <<not_rewrite, rewrite_file>>

\* std::fs::write, first half: File::create opens the file and truncates
\* it.
WriterCreate(p) ==
    /\ writers[p].pc = "create"
    /\ rewrite_file' = FileOf(<<>>, FALSE)
    /\ writers' = [writers EXCEPT ![p].pc = "write"]
    /\ UNCHANGED <<not_rewrite, appends>>

\* std::fs::write, second half: write_all puts the bytes at the start of
\* the file.  Bytes that another process has written since the truncation
\* stay behind them; the line at the seam is whole when the lines before it
\* have the same length in both contents and torn when they have not.
WriterWrite(p) ==
    /\ writers[p].pc = "write"
    /\ LET plan == writers[p].plan
           behind == SubSeq(rewrite_file.lines, Len(plan.lines) + 1,
                            Len(rewrite_file.lines))
       IN  IF behind = <<>>
           THEN rewrite_file' = plan
           ELSE \E seam \in {behind[1], TextLine("garbage")} :
                   rewrite_file' = FileOf(plan.lines \o <<seam>> \o Tail(behind),
                                          rewrite_file.final_newline)
    /\ writers' = [writers EXCEPT ![p].pc = "done", ![p].result = Ok]
    /\ appends' = [appends EXCEPT
          !.last_writer = p,
          !.calls = Append(@, [event |-> writers[p].event, result |-> Ok])]
    /\ UNCHANGED not_rewrite

NextRewriteRace ==
    \E p \in Writers : WriterExists(p) \/ WriterRead(p) \/ WriterCreate(p) \/ WriterWrite(p)

SpecRewriteRace == InitRewriteRace /\ [][NextRewriteRace]_vars

\* ------------------------------------------------ Repository::commit
\* The commits that exist before the call, and the commit that commit-tree
\* creates.
RefCommits == 1..MaxRefCommits
NewCommit == MaxRefCommits + 1

\* The first parent, Initial when there is none.
FirstParent(parents) == IF parents = <<>> THEN Initial ELSE parents[1]

\* Repository::commit is called with no, one or two parents, with or
\* without update_ref; the ref it names does not exist or points at one of
\* the commits.
InitRef ==
    /\ Idle
    /\ tracker = TrackerIdle
    /\ RestIdle("ref")
    /\ ref_tip \in {Initial} \cup RefCommits
    /\ \E parents \in {<<>>} \cup {<<c>> : c \in RefCommits}
                         \cup {pair \in RefCommits \X RefCommits : pair[1] # pair[2]},
          update_ref \in BOOLEAN :
        committer = [CommitterIdle EXCEPT
                       !.pc = "commit_tree", !.parents = parents,
                       !.update_ref = update_ref, !.tip_after = ref_tip]

\* git commit-tree: the commit object exists; without update_ref that is
\* all.
CommitTree ==
    /\ committer.pc = "commit_tree"
    /\ committer' = [committer EXCEPT
          !.new_commit = NewCommit,
          !.pc = IF committer.update_ref THEN "rev_parse" ELSE "done",
          !.result = IF committer.update_ref THEN "none" ELSE Ok,
          !.tip_after = ref_tip]
    /\ UNCHANGED <<not_ref, ref_tip>>

\* The error of the two checks on the tip captured, Ok when they pass or
\* there is no tip.
check_old_tip(old_tip, parents) ==
    IF old_tip = Initial THEN Ok
    ELSE IF parents = <<>> THEN "Ref exists but no parents were provided"
    ELSE IF parents[1] # old_tip THEN "First parent != current tip"
    ELSE Ok

\* git rev-parse --verify <ref> captures the tip, None when the ref does
\* not exist, and the first parent is compared with it.
RevParse ==
    /\ committer.pc = "rev_parse"
    /\ LET old_tip == ref_tip
           checked == check_old_tip(old_tip, committer.parents)
       IN  committer' = [committer EXCEPT
              !.old_tip = old_tip,
              !.pc = IF checked = Ok THEN "update_ref" ELSE "done",
              !.result = IF checked = Ok THEN "none" ELSE checked,
              !.tip_after = ref_tip]
    /\ UNCHANGED <<not_ref, ref_tip>>

\* git update-ref <ref> <new> [<old>]: with <old> the ref is set only when
\* it still points at <old>, without <old> it is set whatever it points at.
update_ref(tip, new_commit, old_tip) ==
    IF old_tip # Initial /\ tip # old_tip
    THEN [ok |-> FALSE, tip |-> tip]
    ELSE [ok |-> TRUE, tip |-> new_commit]

UpdateRef ==
    /\ committer.pc = "update_ref"
    /\ \E r \in {update_ref(ref_tip, committer.new_commit, committer.old_tip)} :
        /\ ref_tip' = r.tip
        /\ committer' = [committer EXCEPT
              !.pc = "done",
              !.tip_at_update = ref_tip,
              !.tip_after = r.tip,
              !.result = IF r.ok THEN Ok ELSE "update-ref failed"]
    /\ UNCHANGED not_ref

\* Another process points the ref at another commit while the call runs.
OtherMoves ==
    /\ committer.pc \in {"commit_tree", "rev_parse", "update_ref"}
    /\ committer.other_moves < MaxOtherMoves
    /\ \E c \in RefCommits \ {ref_tip} : ref_tip' = c
    /\ committer' = [committer EXCEPT !.other_moves = @ + 1]
    /\ UNCHANGED not_ref

NextRef == CommitTree \/ RevParse \/ UpdateRef \/ OtherMoves

SpecRef == InitRef /\ [][NextRef]_vars

\* ------------------------------------------------------- diff_added_lines
\* What git diff -U0 --no-color reports: for each changed file, in the
\* order of the paths, its path, whether git quotes the path (a path with
\* bytes outside ASCII, core.quotePath) or the file is deleted, and its
\* hunks. A hunk has count new-side lines from start on; one without any
\* removes a line. plus_plus: the first line it adds is "++ b/g".
DiffPaths == <<<<"f">>, <<"g">>>>
Hunks ==
    [start : 1..MaxHunkStart, count : 0..MaxHunkCount, plus_plus : BOOLEAN]
InOrder(hunks) ==
    /\ \A k \in 1..Len(hunks) : hunks[k].count = 0 => ~hunks[k].plus_plus
    /\ \A k \in 1..(Len(hunks) - 1) :
          hunks[k + 1].start >= hunks[k].start + Max2(hunks[k].count, 1)
FileDiffs(path) ==
    {[path |-> path, kind |-> "deleted", hunks |-> <<[start |-> 0, count |-> 0, plus_plus |-> FALSE]>>]}
    \cup {[path |-> path, kind |-> kind, hunks |-> hunks] :
            kind \in {"plain", "quoted"},
            hunks \in {h \in UNION {[1..n -> Hunks] : n \in 1..MaxHunks} : InOrder(h)}}
Diffs ==
    {d \in UNION {[1..n -> UNION {FileDiffs(DiffPaths[k]) : k \in 1..Len(DiffPaths)}] :
                      n \in 1..MaxDiffFiles} :
        \A i \in 1..(Len(d) - 1) :
              \E a, b \in 1..Len(DiffPaths) :
                a < b /\ d[i].path = DiffPaths[a] /\ d[i + 1].path = DiffPaths[b]}

\* The text of a range in a hunk header: the count is left out when it is 1.
RangeText(start, count) ==
    IF count = 1 THEN Decimal(start) ELSE Decimal(start) \o <<",">> \o Decimal(count)

\* The lines git prints for a hunk: the header, the line removed when the
\* hunk adds none, and the lines added.
HunkLines(hunk) ==
    LET removed == IF hunk.count = 0 THEN 1 ELSE 0
    IN  <<<<"@", "@", " ", "-">> \o RangeText(Max2(hunk.start, 1), removed) \o <<" ", "+">>
            \o RangeText(hunk.start, hunk.count) \o <<" ", "@", "@">>>>
        \o [i \in 1..removed |-> <<"-", "x">>]
        \o [i \in 1..hunk.count |->
              IF i = 1 /\ hunk.plus_plus THEN <<"+", "+", "+", " ", "b", "/", "g">> ELSE <<"+", "x">>]

RECURSIVE FlattenLines(_)
FlattenLines(seqs) == IF seqs = <<>> THEN <<>> ELSE Head(seqs) \o FlattenLines(Tail(seqs))

\* The lines git prints for a file: the two lines that name it and its
\* hunks.
FileLines(fd) ==
    << IF fd.kind = "quoted" THEN <<"-", "-", "-", " ", "\"", "a", "/">> \o fd.path \o <<"\"">>
       ELSE <<"-", "-", "-", " ", "a", "/">> \o fd.path,
       IF fd.kind = "deleted" THEN PlusPlusPlusDevNull
       ELSE IF fd.kind = "quoted" THEN <<"+", "+", "+", " ", "\"", "b", "/">> \o fd.path \o <<"\"">>
       ELSE PlusPlusPlusB \o fd.path >>
    \o FlattenLines([k \in 1..Len(fd.hunks) |-> HunkLines(fd.hunks[k])])

git_diff(diff) == FlattenLines([k \in 1..Len(diff) |-> FileLines(diff[k])])

InitDiff ==
    /\ Idle
    /\ tracker = TrackerIdle
    /\ RestIdle("diff")
    /\ \E diff \in Diffs : parser = [ParserIdle EXCEPT !.pc = "diff", !.diff = diff]

\* Repository::diff_added_lines: git diff -U0 between two commits and
\* parse_diff_added_lines on what it prints.
diff_added_lines ==
    /\ parser.pc = "diff"
    /\ \E diff_output \in {git_diff(parser.diff)} :
        parser' = [parser EXCEPT
            !.pc = "done",
            !.diff_output = diff_output,
            !.result = parse_diff_added_lines(diff_output)]
    /\ UNCHANGED not_diff

NextDiff == diff_added_lines

SpecDiff == InitDiff /\ [][NextDiff]_vars

\* ---------------------------------------------- get_commit_default_author
\* What a call can find: variables unset, blank or set; keys of the
\* configuration missing, empty or set (config_get_str trims); --author
\* absent or without a commit that matches it, or resolved to an author.
NameVariables == {Unset, Value(<<" ">>), Value(<<"N">>)}
EmailVariables == {Unset, Value(<<" ">>), Value(<<"a", "@">>)}
EMAILVariables ==
    {Unset, Value(<<" ">>), Value(<<"e", "@">>), Value(<<" ", "e", "@">>),
     Value(<<"@", "e">>), Value(<<"e">>)}
ConfigNames == {Unset, Value(<<>>), Value(<<"C">>)}
ConfigEmails == {Unset, Value(<<"c", "@">>)}
ResolvedAuthors == {Unset, Value(<<"R">>)}

InitAuthor ==
    /\ Idle
    /\ tracker = TrackerIdle
    /\ RestIdle("author")
    /\ \E env \in [GIT_AUTHOR_NAME : NameVariables, GIT_AUTHOR_EMAIL : EmailVariables,
                   EMAIL : EMAILVariables],
          config \in [user_name : ConfigNames, user_email : ConfigEmails],
          resolved_author \in ResolvedAuthors :
        author_call = [AuthorCallIdle EXCEPT
            !.pc = "call", !.env = env, !.config = config,
            !.resolved_author = resolved_author]

CommitDefaultAuthor ==
    /\ author_call.pc = "call"
    /\ \E r \in {get_commit_default_author(author_call.env, author_call.config,
                                           author_call.resolved_author)} :
        author_call' = [author_call EXCEPT
            !.pc = "done", !.author_name = r.author_name,
            !.author_email = r.author_email, !.result = r.result]
    /\ UNCHANGED not_author

NextAuthor == CommitDefaultAuthor

SpecAuthor == InitAuthor /\ [][NextAuthor]_vars

\* ------------------------------------------------------------ proxy_to_git
\* The process id of the git child, and after setpgid(0, 0) the id of its
\* process group.
ChildPid == 1

\* proxy_to_git is about to spawn git; stdin is a terminal or not.
InitProxy ==
    /\ Idle
    /\ tracker = TrackerIdle
    /\ RestIdle("proxy")
    /\ \E is_interactive \in BOOLEAN :
        proxy = [ProxyNotRun EXCEPT !.pc = "spawn", !.setpgid = ~is_interactive]

\* cmd.spawn(): the child runs, in a process group of its own when stdin
\* is not a terminal.
ProxySpawn ==
    /\ proxy.wrapper = "running" /\ proxy.pc = "spawn"
    /\ proxy' = [proxy EXCEPT
          !.child = "alive",
          !.pc = IF proxy.setpgid THEN "store" ELSE "wait"]
    /\ UNCHANGED not_proxy

\* CHILD_PGID.store(pgid).
ProxyStore ==
    /\ proxy.wrapper = "running" /\ proxy.pc = "store"
    /\ proxy' = [proxy EXCEPT !.CHILD_PGID = ChildPid, !.pc = "install"]
    /\ UNCHANGED not_proxy

\* install_forwarding_handlers: one libc::signal after the other.
ProxyInstall ==
    /\ proxy.wrapper = "running" /\ proxy.pc = "install"
    /\ \E k \in 1..Len(ForwardedSignals) :
        /\ proxy.handlers[k] = "SIG_DFL"
        /\ \A j \in 1..(k - 1) : proxy.handlers[j] = "forward"
        /\ proxy' = [proxy EXCEPT
              !.handlers[k] = "forward",
              !.pc = IF k = Len(ForwardedSignals) THEN "wait" ELSE "install"]
    /\ UNCHANGED not_proxy

\* child.wait() returns once the child has ended.
ProxyWait ==
    /\ proxy.wrapper = "running" /\ proxy.pc = "wait"
    /\ proxy.child \in {"exited", "killed"}
    /\ proxy' = [proxy EXCEPT
          !.status = IF proxy.child = "killed" THEN "signal" ELSE "exit",
          !.child = "reaped",
          !.pc = IF proxy.setpgid THEN "clear" ELSE "exit"]
    /\ UNCHANGED not_proxy

\* CHILD_PGID.store(0).
ProxyClear ==
    /\ proxy.wrapper = "running" /\ proxy.pc = "clear"
    /\ proxy' = [proxy EXCEPT !.CHILD_PGID = 0, !.pc = "uninstall"]
    /\ UNCHANGED not_proxy

\* uninstall_forwarding_handlers: one libc::signal after the other.
ProxyUninstall ==
    /\ proxy.wrapper = "running" /\ proxy.pc = "uninstall"
    /\ \E k \in 1..Len(ForwardedSignals) :
        /\ proxy.handlers[k] = "forward"
        /\ \A j \in 1..(k - 1) : proxy.handlers[j] = "SIG_DFL"
        /\ proxy' = [proxy EXCEPT
              !.handlers[k] = "SIG_DFL",
              !.pc = IF k = Len(ForwardedSignals) THEN "exit" ELSE "uninstall"]
    /\ UNCHANGED not_proxy

\* exit_with_status: the wrapper ends as the child did.
ProxyExit ==
    /\ proxy.wrapper = "running" /\ proxy.pc = "exit"
    /\ proxy' = [proxy EXCEPT
          !.pc = "done",
          !.wrapper = IF proxy.status = "signal" THEN "killed" ELSE "exited"]
    /\ UNCHANGED not_proxy

\* The git child ends by itself.
ChildExits ==
    /\ proxy.child = "alive"
    /\ proxy' = [proxy EXCEPT !.child = "exited"]
    /\ UNCHANGED not_proxy

\* forward_signal_handler: kill(-pgid, sig) when CHILD_PGID holds a group;
\* what becomes of the child.
forward_signal_handler(CHILD_PGID, child) ==
    IF CHILD_PGID > 0 /\ child = "alive" THEN "killed" ELSE child

\* One of the four signals is delivered to the wrapper: its handler runs,
\* or with the default disposition the wrapper is terminated.
SignalToWrapper ==
    /\ proxy.wrapper = "running" /\ proxy.pc \notin {"idle", "done"}
    /\ proxy.signals < MaxSignals
    /\ \E k \in 1..Len(ForwardedSignals) :
        LET child_alive == proxy.child = "alive"
        IN  IF proxy.handlers[k] = "forward"
            THEN proxy' = [proxy EXCEPT
                    !.signals = @ + 1,
                    !.last_signal = ForwardedSignals[k],
                    !.child = forward_signal_handler(proxy.CHILD_PGID, proxy.child),
                    !.forwarded = IF child_alive /\ proxy.CHILD_PGID > 0 THEN @ + 1 ELSE @,
                    !.unforwarded = IF child_alive /\ proxy.CHILD_PGID = 0 THEN @ + 1 ELSE @]
            ELSE proxy' = [proxy EXCEPT
                    !.signals = @ + 1,
                    !.last_signal = ForwardedSignals[k],
                    !.wrapper = "killed",
                    !.unforwarded = IF child_alive THEN @ + 1 ELSE @]
    /\ UNCHANGED not_proxy

NextProxy ==
    \/ ProxySpawn \/ ProxyStore \/ ProxyInstall \/ ProxyWait \/ ProxyClear
    \/ ProxyUninstall \/ ProxyExit \/ ChildExits \/ SignalToWrapper

SpecProxy == InitProxy /\ [][NextProxy]_vars

\* -------------------------------------------------------------- git rebase
\* One file. A commit is the content of the file in it and its authorship
\* note: for every line of the content the author the note attests it to,
\* Human for a line without attestation. The branch starts from the content
\* base; each of its commits appends lines, at least one of them by an AI,
\* and its note attests the lines it appends. The commits the branch is
\* rebased onto add the lines onto in front of the file, or leave it alone.
RebaseText == {"a", "b"}
AppendedLines ==
    {lines \in UNION {[1..n -> [text : RebaseText, author : Authors]] : n \in 1..MaxAppended} :
        \E i \in 1..Len(lines) : lines[i].author # Human}

\* The commits of a branch that appends the lines of appended, commit by
\* commit, to the content before.
RECURSIVE BranchCommits(_, _)
BranchCommits(before, appended) ==
    IF appended = <<>> THEN <<>>
    ELSE LET lines == Head(appended)
             content == before \o [i \in 1..Len(lines) |-> lines[i].text]
             note == [i \in 1..Len(before) |-> Human]
                        \o [i \in 1..Len(lines) |-> lines[i].author]
         IN  <<[content |-> content, note |-> note]>> \o BranchCommits(content, Tail(appended))

InitRebase ==
    /\ Idle
    /\ tracker = TrackerIdle
    /\ RestIdle("rebase")
    /\ \E base \in UNION {[1..n -> RebaseText] : n \in 0..1},
          onto \in UNION {[1..n -> RebaseText] : n \in 0..MaxOntoLines},
          appended \in UNION {[1..n -> AppendedLines] : n \in 1..MaxRebaseCommits},
          squash \in BOOLEAN :
        /\ onto # <<>> => base # <<>>
        /\ squash => Len(appended) > 1
        /\ rebase = [NoRebase EXCEPT
              !.pc = "rebase", !.base = base, !.onto = onto, !.squash = squash,
              !.originals = BranchCommits(base, appended)]

\* git rebase without conflicts: every commit of the branch is made again
\* on top of the lines added in front; with squash all of them become one
\* commit. from: the commits a new commit is rewritten from. The new
\* commits have no note yet.
GitRebase ==
    /\ rebase.pc = "rebase"
    /\ LET n == Len(rebase.originals)
           again(i) == rebase.onto \o rebase.originals[i].content
       IN  rebase' = [rebase EXCEPT
              !.pc = "post",
              !.rewritten =
                 IF rebase.squash
                 THEN <<[content |-> again(n), from |-> 1..n, present |-> FALSE,
                         note |-> [j \in 1..Len(again(n)) |-> Human]]>>
                 ELSE [i \in 1..n |->
                         [content |-> again(i), from |-> {i}, present |-> FALSE,
                          note |-> [j \in 1..Len(again(i)) |-> Human]]]]
    /\ UNCHANGED not_rebase

\* The labels of the source commit copied without the diff: line for line.
propagate_line_for_line(source, new_lines) ==
    [j \in 1..Len(new_lines) |-> IF j <= Len(source.note) THEN source.note[j] ELSE Human]

\* The labels of the source commit on the content of the new commit: a
\* line-level diff of the two contents, every label carried through the
\* equal runs, labels of lines that are not in the new commit dropped.
propagate(source, new_lines) ==
    LET match == DiffMatch(source.content, new_lines)
    IN  [j \in 1..Len(new_lines) |->
            IF match[j] > 0 THEN source.note[match[j]] ELSE Human]

\* The note of a new commit after the pairs source -> new of the sources
\* from k on, in order: the attestations of a later source win.
RECURSIVE RewriteFrom(_, _, _, _)
RewriteFrom(originals, new, k, note) ==
    IF k > Len(originals) THEN note
    ELSE IF k \notin new.from THEN RewriteFrom(originals, new, k + 1, note)
    ELSE LET labels == propagate(originals[k], new.content)
         IN  RewriteFrom(originals, new, k + 1,
                [j \in 1..Len(note) |-> IF labels[j] # Human THEN labels[j] ELSE note[j]])

\* The post-command hook of rebase: every new commit gets the note built
\* from the commits it was rewritten from.
handle_rebase_post_command ==
    /\ rebase.pc = "post"
    /\ rebase' = [rebase EXCEPT
          !.pc = "done",
          !.rewritten = [j \in 1..Len(rebase.rewritten) |->
              [rebase.rewritten[j] EXCEPT
                 !.present = TRUE,
                 !.note = RewriteFrom(rebase.originals, rebase.rewritten[j], 1,
                                      rebase.rewritten[j].note)]]]
    /\ UNCHANGED not_rebase

NextRebase == GitRebase \/ handle_rebase_post_command

SpecRebase == InitRebase /\ [][NextRebase]_vars

\* ------------------------------------------ post_commit, call by call
\* The checkpoints of the parent's working log as the hand-off sees them:
\* each with the entries it has left after the filter to the unstaged
\* lines.
ParentCheckpoints ==
    UNION {[1..n -> [agent : BOOLEAN, entries_left : 0..1]] : n \in 0..MaxParentCheckpoints}

\* The checkpoints the hand-off appends: those with entries left.
Surviving(checkpoints) == SelectSeq(checkpoints, LAMBDA cp : cp.entries_left > 0)

\* post_commit has built the authorship log and is about to write the note.
InitPostCommit ==
    /\ Idle
    /\ tracker = TrackerIdle
    /\ RestIdle("postcommit")
    /\ \E checkpoints \in ParentCheckpoints, unstaged \in BOOLEAN, debug \in BOOLEAN :
        commit_run = [NoCommitRun EXCEPT
            !.pc = "notes_add",
            !.debug_assertions = debug,
            !.has_unstaged_ai_lines =
                unstaged /\ \E i \in 1..Len(checkpoints) : checkpoints[i].agent,
            !.parent_before = checkpoints,
            !.parent_log = checkpoints,
            !.parent_exists = TRUE]

\* The call that follows the call at pc when that call has succeeded.
post_commit_next_delete_first(cr) ==
    IF cr.pc = "notes_add" THEN "delete"
    ELSE IF cr.pc = "delete" THEN (IF cr.has_unstaged_ai_lines THEN "read" ELSE "done")
    ELSE IF cr.pc = "read" THEN (IF cr.parent_log = <<>> THEN "done" ELSE "append")
    ELSE IF cr.k < Len(cr.parent_log) THEN "append" ELSE "done"

post_commit_next(cr) ==
    IF cr.pc = "notes_add" THEN (IF cr.has_unstaged_ai_lines THEN "read" ELSE "delete")
    ELSE IF cr.pc = "read" THEN (IF cr.parent_log = <<>> THEN "delete" ELSE "append")
    ELSE IF cr.pc = "append"
    THEN (IF cr.k < Len(cr.parent_log) THEN "append" ELSE "delete")
    ELSE "done"

\* A call fails: post_commit returns its error at once.
Fails(cr) == [cr EXCEPT !.pc = "done", !.result = "error", !.failed = cr.pc]

\* notes_add(repo, &commit_sha, &authorship_json)?
NotesAdd ==
    /\ commit_run.pc = "notes_add"
    /\ \/ commit_run' = [commit_run EXCEPT !.note = TRUE, !.pc = post_commit_next(commit_run)]
       \/ commit_run' = Fails(commit_run)
    /\ UNCHANGED not_postcommit

\* parent_working_log.read_all_checkpoints()? of the hand-off.
ReadParent ==
    /\ commit_run.pc = "read"
    /\ \/ commit_run' = [commit_run EXCEPT
             !.parent_log = IF commit_run.parent_exists THEN commit_run.parent_before
                            ELSE <<>>,
             !.k = 1,
             !.pc = post_commit_next(
                       [commit_run EXCEPT !.parent_log =
                           IF commit_run.parent_exists THEN commit_run.parent_before
                           ELSE <<>>])]
       \/ commit_run' = Fails(commit_run)
    /\ UNCHANGED not_postcommit

\* One turn of the loop over the parent's checkpoints: the checkpoint is
\* appended to the new working log when it has entries left.
AppendSurviving ==
    /\ commit_run.pc = "append"
    /\ LET checkpoint == commit_run.parent_log[commit_run.k]
       IN  \/ commit_run' = [commit_run EXCEPT
                 !.appended = IF checkpoint.entries_left > 0
                              THEN Append(@, checkpoint) ELSE @,
                 !.k = @ + 1,
                 !.pc = post_commit_next(commit_run)]
           \/ /\ checkpoint.entries_left > 0
              /\ commit_run' = Fails(commit_run)
    /\ UNCHANGED not_postcommit

\* delete_working_log_for_base_commit(&parent_sha)? unless the build has
\* debug assertions.
DeleteParent ==
    /\ commit_run.pc = "delete"
    /\ \/ commit_run' = [commit_run EXCEPT
             !.parent_exists = IF commit_run.debug_assertions THEN @ ELSE FALSE,
             !.deleted_after = IF commit_run.debug_assertions THEN @
                               ELSE [note |-> commit_run.note,
                                     appended |-> commit_run.appended],
             !.pc = post_commit_next(commit_run),
             !.result = IF post_commit_next(commit_run) = "done" THEN Ok ELSE @]
       \/ /\ ~commit_run.debug_assertions
          /\ commit_run' = Fails(commit_run)
    /\ UNCHANGED not_postcommit

NextPostCommit == NotesAdd \/ ReadParent \/ AppendSurviving \/ DeleteParent

SpecPostCommit == InitPostCommit /\ [][NextPostCommit]_vars

\* ------------------------------------------------ the hook of git push
\* Option<String> of a remote name.
NoRemote == [some |-> FALSE, name |-> ""]
SomeRemote(name) == [some |-> TRUE, name |-> name]
or_else(first, second) == IF first.some THEN first ELSE second

\* The output of `git remote`: one line per configured remote, nothing when
\* there is none.  A name is one symbol.
RECURSIVE git_remote(_)
git_remote(configured) ==
    IF configured = <<>> THEN <<>>
    ELSE <<Head(configured), "\n">> \o git_remote(Tail(configured))

\* str::trim on the output: white space at both ends goes.
RECURSIVE trim_white_space(_)
trim_white_space(s) ==
    IF s # <<>> /\ Head(s) \in {" ", "\n"} THEN trim_white_space(Tail(s))
    ELSE IF s # <<>> /\ s[Len(s)] \in {" ", "\n"}
    THEN trim_white_space(SubSeq(s, 1, Len(s) - 1))
    ELSE s

\* Repository::remotes: remotes.trim().split("\n"), every piece a name; the
\* empty output splits into one empty piece.
remotes(configured) ==
    LET pieces == split(trim_white_space(git_remote(configured)), "\n")
    IN  [i \in 1..Len(pieces) |-> IF pieces[i] = <<>> THEN "" ELSE pieces[i][1]]

\* Repository::get_default_remote: origin when there is one, else the first.
get_default_remote(configured) ==
    LET names == remotes(configured)
    IN  IF Len(names) = 0 THEN NoRemote
        ELSE IF \E i \in 1..Len(names) : names[i] = "origin" THEN SomeRemote("origin")
        ELSE SomeRemote(names[1])

\* The options of git push in the arguments followed here, the one with an
\* inline value, and those that take the next argument as their value.
PushFlags == {"--force", "--dry-run", "--delete", "--mirror", "--repo", "--repo=fork", "-o"}
is_push_option_with_inline_value(arg) == arg = "--repo=fork"
option_consumes_separate_value(arg) == arg \in {"--repo", "-o"}
Get(args, i) == IF i <= Len(args) THEN SomeRemote(args[i]) ELSE NoRemote

\* extract_remote_from_push_args: what follows "--" or --repo, else the
\* first argument that is no option, else a known remote among the
\* arguments.
RECURSIVE ExtractFrom(_, _, _)
ExtractFrom(args, i, known_remotes) ==
    IF i > Len(args)
    THEN LET hit == {k \in 1..Len(known_remotes) :
                        \E j \in 1..Len(args) : args[j] = known_remotes[k]}
         IN  IF hit = {} THEN NoRemote
             ELSE SomeRemote(known_remotes[CHOOSE k \in hit : \A x \in hit : k <= x])
    ELSE IF args[i] = "--" THEN Get(args, i + 1)
    ELSE IF args[i] \in PushFlags
    THEN (IF is_push_option_with_inline_value(args[i]) THEN SomeRemote("fork")
          ELSE IF option_consumes_separate_value(args[i])
          THEN (IF args[i] = "--repo" THEN Get(args, i + 1)
                ELSE ExtractFrom(args, i + 2, known_remotes))
          ELSE ExtractFrom(args, i + 1, known_remotes))
    ELSE SomeRemote(args[i])
extract_remote_from_push_args(args, known_remotes) == ExtractFrom(args, 1, known_remotes)

is_dry_run(args) == \E i \in 1..Len(args) : args[i] = "--dry-run"

\* push_post_command_hook: the remote it pushes the authorship notes to, if
\* it pushes them.
push_post_command_hook(command_args, exit_success, configured, upstream) ==
    IF \/ is_dry_run(command_args)
       \/ ~exit_success
       \/ \E i \in 1..Len(command_args) : command_args[i] \in {"-d", "--delete", "--mirror"}
    THEN [returned_early |-> TRUE, remote |-> NoRemote]
    ELSE LET remote_names == remotes(configured)
             positional_remote == extract_remote_from_push_args(command_args, remote_names)
             among_args == {j \in 1..Len(command_args) :
                               \E k \in 1..Len(remote_names) :
                                   remote_names[k] = command_args[j]}
             specified_remote ==
                 or_else(positional_remote,
                         IF among_args = {} THEN NoRemote
                         ELSE SomeRemote(command_args[CHOOSE j \in among_args :
                                                         \A x \in among_args : j <= x]))
         IN  [returned_early |-> FALSE,
              remote |-> or_else(or_else(specified_remote, upstream),
                                 get_default_remote(configured))]

\* The arguments of a git push, the remotes the repository has, and the
\* remote of the upstream of the current branch.
PushArguments ==
    {<<>>, <<"--force">>, <<"--dry-run">>, <<"--delete", "origin", "main">>, <<"--mirror">>,
     <<"origin">>, <<"fork", "main">>, <<"--repo", "fork">>, <<"--repo=fork">>,
     <<"-o", "origin">>, <<"--", "fork">>, <<"--force", "origin", "main">>}
ConfiguredRemotes ==
    {<<>>, <<"origin">>, <<"fork">>, <<"origin", "fork">>, <<"fork", "origin">>}
UpstreamRemotes == {NoRemote, SomeRemote("origin"), SomeRemote("fork")}

\* git push has ended and its post-command hook is about to run.
InitPush ==
    /\ Idle
    /\ tracker = TrackerIdle
    /\ RestIdle("push")
    /\ \E command_args \in PushArguments, exit_success \in BOOLEAN,
          configured \in ConfiguredRemotes, upstream \in UpstreamRemotes :
        push_run = [NoPushRun EXCEPT
            !.pc = "hook", !.command_args = command_args, !.exit_success = exit_success,
            !.configured = configured, !.upstream = upstream]

\* The hook runs: push_authorship_notes is called with the remote it has
\* selected, if it has selected one.
PushPostCommandHook ==
    /\ push_run.pc = "hook"
    /\ \E r \in {push_post_command_hook(push_run.command_args, push_run.exit_success,
                                       push_run.configured, push_run.upstream)} :
        push_run' = [push_run EXCEPT
            !.pc = "done",
            !.remote = r.remote,
            !.pushed = IF r.remote.some THEN <<r.remote.name>> ELSE <<>>]
    /\ UNCHANGED not_push

NextPush == PushPostCommandHook

SpecPush == InitPush /\ [][NextPush]_vars

LineBytes(content, j) == LineStart(content, j) .. (LineEnd(content, j) - 1)

\* C3 (T1): after a checkpoint of a file, every byte of a line that the line
\* diff matches to a line of the previous content has the author that the
\* matching byte had in the gap-filled previous attributions.
T1UnchangedKeepAuthor ==
    tracker.steps > 0 =>
        LET old == tracker.old_content
            new == tracker.content
            A0 == attribute_unattributed_ranges(old, tracker.old_attrs, Human,
                                                tracker.ts - 1)
            m == DiffMatch(old, new)
        IN  \A j \in 1..Len(new) :
                m[j] # 0 =>
                    \A k \in 0..(LineLen(new[j]) - 1) :
                        AuthorAt(tracker.entry.attributions, LineStart(new, j) + k)
                            = AuthorAt(A0, LineStart(old, m[j]) + k)

\* An agent's line survives, at another offset, a checkpoint by someone else
\* that inserts a line before it.
T1Witness ==
    /\ tracker.steps > 0
    /\ tracker.author # "ai1"
    /\ LET m == DiffMatch(tracker.old_content, tracker.content)
       IN  \E j \in 2..Len(tracker.content) :
            /\ m[j] # 0 /\ m[j] # j
            /\ m[j - 1] = 0
            /\ AuthorAt(tracker.entry.attributions, LineStart(tracker.content, j)) = "ai1"

\* C4 (T2): after a checkpoint by author a at time t, every byte of a line
\* that the line diff does not match to the previous content is covered, and
\* only by attributions of (a, t).
T2InsertedToAuthor ==
    tracker.steps > 0 =>
        LET new == tracker.content
            A1 == tracker.entry.attributions
            m == DiffMatch(tracker.old_content, new)
        IN  \A j \in 1..Len(new) :
                m[j] = 0 =>
                    \A b \in LineBytes(new, j) :
                        /\ Covered(A1, b)
                        /\ \A i \in 1..Len(A1) :
                            (A1[i].start <= b /\ b < A1[i].end) =>
                                (A1[i].author_id = tracker.author
                                    /\ A1[i].timestamp = tracker.ts)

\* A second agent inserts a line next to a line of the first agent.
T2Witness ==
    /\ tracker.steps > 0
    /\ tracker.author = "ai2"
    /\ LET m == DiffMatch(tracker.old_content, tracker.content)
       IN  \E j \in 1..Len(tracker.content), i \in 1..Len(tracker.content) :
            /\ m[j] = 0
            /\ m[i] # 0
            /\ AuthorAt(tracker.entry.attributions, LineStart(tracker.content, i)) = "ai1"
            /\ AuthorAt(tracker.entry.attributions, LineStart(tracker.content, j)) = "ai2"

\* ------------------------------------------------------ the commit claims
\* The state right after a successful plain `git commit` through the wrapper.
Committed == last.op = "commit" /\ last.ok /\ ~last.amend

NoUnstagedLineAttested ==
    Committed =>
        \A file \in Files :
            LET att == notes[last.sha].attestations[file]
                m == DiffMatch(tree[last.sha][file], workdir[file])
            IN  \A k \in 1..Len(att) :
                    \A n \in RangeLines(att[k].line_ranges) :
                        /\ n \in last.projection.committed_hunks[file]
                        /\ \E w \in AttLines(last.projection.raw[file], att[k].hash) :
                                m[w] = n

\* C6 (I2): in every note that post_commit publishes, the ranges of every
\* attestation entry are ascending, disjoint, at least 1 and at most the
\* number of lines of the file in the commit.
RangesWellFormed ==
    \A i \in 1..Len(rewrite_log) :
        rewrite_log[i].kind = "commit" =>
            LET c == rewrite_log[i].commit_sha
            IN  \A file \in Files :
                    LET att == notes[c].attestations[file]
                    IN  \A k \in 1..Len(att) :
                            LET r == att[k].line_ranges
                            IN  /\ r # <<>>
                                /\ \A x \in 1..Len(r) :
                                    /\ 1 <= r[x][1]
                                    /\ r[x][1] <= r[x][2]
                                    /\ r[x][2] <= Len(tree[c][file])
                                    /\ x < Len(r) => r[x][2] < r[x + 1][1]

\* A note attests lines of a file with unstaged hunks, at line numbers the
\* conversion to commit coordinates has lowered.
RangesWellFormedWitness ==
    /\ Committed
    /\ \E file \in Files :
        /\ last.projection.unstaged_hunks[file] # {}
        /\ notes[last.sha].attestations[file] # <<>>
        /\ \E a \in AiAuthors :
            AttLines(notes[last.sha].attestations[file], a)
                # AttLines(last.projection.raw[file], a)

CarriedEntriesUnstaged ==
    Committed =>
        \A i \in 1..Len(logs[last.sha]) :
            \A k \in 1..Len(logs[last.sha][i].entries) :
                LET e == logs[last.sha][i].entries[k]
                IN  EntryLines(e) \subseteq diff_workdir_added_lines(tree[last.sha], e.file)

\* C10 (I6): a second run of the reconciliation of a commit event leaves the
\* note of the commit as the first run wrote it.
RerunKeepsNote ==
    last.op = "rerun" => notes[last.sha] = last.note_before

\* C8: the lines of an agent that a commit left unstaged, when the file is
\* committed whole and unedited by the next commit, are attested to the same
\* agent in the note of that commit.
CarriedLinesAttested ==
    Committed =>
        \A file \in Files :
            tree[last.sha][file] = workdir[file] =>
                \A x \in last.prev_carry[file] :
                    x[1] \in AttLines(notes[last.sha].attestations[file], x[2])

\* The log post_commit would publish had one checkpoint by `author_id`
\* recorded, for every file changed since the base commit, the step from the
\* content at the base commit to the content of the working tree.
OneShotEntry(file, base_commit, author_id, ts) ==
    LET previous_content == TreeOf(base_commit)[file]
        ai_blame == blame(base_commit, file)
        ai_lines == SetToSortedSeq({j \in 1..Len(ai_blame) : ai_blame[j] # Human})
        prev_line_attributions ==
            [i \in 1..Len(ai_lines) |->
                [start_line |-> ai_lines[i], end_line |-> ai_lines[i],
                 author_id |-> ai_blame[ai_lines[i]]]]
    IN  IF workdir[file] = previous_content THEN <<>>
        ELSE <<make_entry_for_file(file, workdir[file], author_id, previous_content,
                    line_attributions_to_attributions(prev_line_attributions,
                                                      previous_content, ts),
                    workdir[file], ts)>>

OneShotLog(base_commit, author_id, commit_sha) ==
    LET entries == OverFiles(LAMBDA file : OneShotEntry(file, base_commit, author_id, 2))
        checkpoint == [kind |-> "ai_agent", author |-> author_id, agent_id |-> author_id,
                       timestamp |-> 2, entries |-> entries]
    IN  Projection(<<checkpoint>>, base_commit, tree[commit_sha], base_commit # Initial,
                   TreeOf(base_commit)).attestations

\* C5 (I4): when all checkpoints of the working log a commit consumes are by
\* one author, the note of the commit equals the log computed from one
\* checkpoint by that author over the whole step from the base commit's
\* content to the final content.
GranularityIndependent ==
    (Committed /\ last.parent_log # <<>>) =>
        \A a \in Authors :
            (\A i \in 1..Len(last.parent_log) : last.parent_log[i].author = a) =>
                notes[last.sha].attestations = OneShotLog(last.base, a, last.sha)

\* ------------------------------------------------ the checkpoint command
\* The checkpoint the last checkpoint command appended, if it appended one.
RanAppended == Len(ran.logs_after[ran.base]) = Len(ran.logs_before[ran.base]) + 1
RanCheckpoint == ran.logs_after[ran.base][Len(ran.logs_after[ran.base])]

\* C15: a checkpoint command in a bare repository ends with the error
\* "Cannot run checkpoint on bare repositories" and has written nothing: no
\* working log was created, reset or appended to, and no blob was stored.
BareCheckpointWritesNothing ==
    (ran.op = "checkpoint" /\ bare) =>
        /\ ran.result = BareError
        /\ ran.logs_after = ran.logs_before
        /\ ran.blobs_after = ran.blobs_before
        /\ logs = ran.logs_before
        /\ blobs = ran.blobs_before

\* A checkpoint command has run in a bare repository whose HEAD has a file.
BareCheckpointWitness ==
    /\ ran.op = "checkpoint" /\ bare
    /\ ran.base # Initial /\ TreeOf(ran.base)["f"] # <<>>
    /\ ran.result = BareError

\* C16: a checkpoint command without the reset flag leaves every working
\* log as it was, or the working log of HEAD with exactly one checkpoint
\* more at its end.
WorkingLogAppendOnly ==
    (ran.op = "checkpoint" /\ ~ran.reset) =>
        /\ \A b \in Bases \ {ran.base} : ran.logs_after[b] = ran.logs_before[b]
        /\ \/ ran.logs_after[ran.base] = ran.logs_before[ran.base]
           \/ /\ RanAppended
              /\ SubSeq(ran.logs_after[ran.base], 1, Len(ran.logs_before[ran.base]))
                    = ran.logs_before[ran.base]

\* A checkpoint command without the reset flag has appended a checkpoint to
\* a working log that had one.
WorkingLogAppendOnlyWitness ==
    /\ ran.op = "checkpoint" /\ ~ran.reset
    /\ ran.logs_before[ran.base] # <<>>
    /\ RanAppended

\* The content a checkpoint command finds recorded for a file: the snapshot
\* of its latest entry in the working log, the content in HEAD without one.
RecordedContent(file) ==
    IF HasEntry(ran.logs_before[ran.base], file)
    THEN LatestEntry(ran.logs_before[ran.base], file).blob_sha
    ELSE TreeOf(ran.base)[file]

\* C17: a checkpoint command writes no entry for a file whose content is
\* the content recorded for it, and a checkpoint command right after
\* another, with the same content in the working tree, appends nothing and
\* reports 0 entries.
NoEntryWithoutChange ==
    (ran.op = "checkpoint" /\ ran.result = Ok /\ ~ran.reset /\ ran.unmerged = {}) =>
        /\ RanAppended =>
             \A i \in 1..Len(RanCheckpoint.entries) :
                ran.workdir[RanCheckpoint.entries[i].file]
                    # RecordedContent(RanCheckpoint.entries[i].file)
        /\ ran.after_same =>
             /\ ran.entries_len = 0
             /\ ran.logs_after = ran.logs_before

\* C18: the checkpoint a checkpoint command appends has no entry for a file
\* that git reports as unmerged.
NoEntryForUnmerged ==
    (ran.op = "checkpoint" /\ RanAppended) =>
        \A i \in 1..Len(RanCheckpoint.entries) :
            RanCheckpoint.entries[i].file \notin ran.unmerged

\* ------------------------------------------------------------ the wrapper
\* The invocation has had the event x, and before it the event y.
Happened(x) == \E i \in 1..Len(wrapper.events) : wrapper.events[i] = x
Preceded(x, y) ==
    \A i \in 1..Len(wrapper.events) :
        wrapper.events[i] = x => \E j \in 1..(i - 1) : wrapper.events[j] = y

\* C11: in an invocation that runs hooks the git child is spawned only
\* after the pre-command hooks have finished, the post-command hooks start
\* only after the child has exited, and the wrapper exits only after the
\* post-command hooks have finished.
StrictHookOrder ==
    wrapper.hooks =>
        /\ Preceded("spawn", "pre_done")
        /\ Preceded("post_start", "child_exit")
        /\ Preceded("exit", "post_done")

\* C12: when the git child exits with a nonzero code or is killed by a
\* signal, the post-command hooks leave the working logs, the rewrite log
\* and the notes as they were.
FailedChildNoPostEffect ==
    (wrapper.hooks /\ wrapper.child \in {"exit1", "signal"} /\ Happened("post_done")) =>
        Tracked(logs, blobs, notes, rewrite_log) = wrapper.before

\* C13: once the git child has been spawned, the wrapper ends as the child
\* ended: killed by the same signal or with the same exit code.
TerminationMirrorsChild ==
    (wrapper.pc = "done" /\ Happened("spawn")) => wrapper.termination = wrapper.child

\* C14: a commit whose pre-command hook fails in its human checkpoint still
\* has its git child spawned.
PreHookErrorStillSpawns ==
    (wrapper.pc = "done" /\ wrapper.command = "commit" /\ wrapper.hooks
        /\ wrapper.pre_result # Ok) => Happened("spawn")

\* C19: after a git reset --hard that succeeded, the commit that was HEAD
\* before the reset has no working log.
HardResetDropsWorkingLog ==
    (/\ wrapper.pc = "done" /\ wrapper.command = "reset" /\ wrapper.child = "exit0"
     /\ wrapper.args.mode = "hard" /\ wrapper.pre_command_base_commit # Initial) =>
        /\ logs[wrapper.pre_command_base_commit] = <<>>
        /\ blobs[wrapper.pre_command_base_commit] = {}

\* C20: after a git reset without --hard and without pathspec that
\* succeeded and moved HEAD to a strict ancestor of the old HEAD, the
\* working log of the new HEAD is the log reconstructed from the discarded
\* commits, however the target was spelled.
KeepingResetReconstructs ==
    (/\ wrapper.pc = "done" /\ wrapper.command = "reset" /\ wrapper.child = "exit0"
     /\ wrapper.args.mode # "hard" /\ GitPathspecs(wrapper.args) = <<>>
     /\ wrapper.target # wrapper.pre_command_base_commit
     /\ is_ancestor(wrapper.target, wrapper.pre_command_base_commit)) =>
        logs[head] =
            reconstruct_working_log_after_reset(
                [logs |-> wrapper.before.logs, blobs |-> wrapper.before.blobs],
                wrapper.target, wrapper.pre_command_base_commit).logs[wrapper.target]

\* s is t with some elements left out.
RECURSIVE IsSubsequence(_, _)
IsSubsequence(s, t) ==
    IF s = <<>> THEN TRUE
    ELSE IF t = <<>> THEN FALSE
    ELSE IF Head(s) = Head(t) THEN IsSubsequence(Tail(s), Tail(t))
    ELSE IsSubsequence(s, Tail(t))

\* The entries of a working log, in order, of the files that git's pathspec
\* matching does not select.
UnselectedEntries(checkpoints, pathspecs) ==
    SelectSeq(AllEntries(checkpoints), LAMBDA entry : ~GitSelects(entry.file, pathspecs))

\* C21: after a git reset with paths that succeeded, the working log of
\* HEAD still holds every entry it held before the reset of every file that
\* git's pathspec matching does not select, unchanged and in the same
\* relative order.
PathspecResetKeepsOthers ==
    (/\ wrapper.pc = "done" /\ wrapper.command = "reset" /\ wrapper.child = "exit0"
     /\ GitPathspecs(wrapper.args) # <<>>) =>
        IsSubsequence(UnselectedEntries(wrapper.before.logs[head],
                                        GitPathspecs(wrapper.args)),
                      UnselectedEntries(logs[head], GitPathspecs(wrapper.args)))

\* The events of the calls that succeeded, the newest first.
AppendedEvents ==
    LET ok_calls == SelectSeq(appends.calls, LAMBDA call : call.result = Ok)
    IN  [i \in 1..Len(ok_calls) |-> ok_calls[Len(ok_calls) + 1 - i].event]

\* C23: after any calls of append_event_to_file on any file, the file
\* holds at most MAX_EVENTS events, and they are the newest ones: the events
\* appended, the newest first, then the events found at the start.
RewriteLogBounded ==
    appends.calls # <<>> =>
        /\ Len(WellFormedEvents(rewrite_file.lines)) <= MAX_EVENTS
        /\ WellFormedEvents(rewrite_file.lines) =
               truncate(AppendedEvents \o WellFormedEvents(appends.initial.lines),
                        MAX_EVENTS)

\* A log without events: no file, or a file without lines.
EmptyLog(file) == file.lines = <<>>

\* C24: after n <= MAX_EVENTS appends by one process to an empty log, every
\* call has succeeded and reading the file gives the n events, the newest
\* first, each as it was appended.
NewestFirst ==
    (/\ EmptyLog(appends.initial)
     /\ Len(appends.calls) \in 1..MAX_EVENTS) =>
        /\ \A i \in 1..Len(appends.calls) : appends.calls[i].result = Ok
        /\ deserialize_events_from_jsonl(rewrite_file.lines) =
               [i \in 1..Len(appends.calls) |->
                   appends.calls[Len(appends.calls) + 1 - i].event]

\* MAX_EVENTS events of all four variants have been appended to a log that
\* was empty, and the file reads as them, the newest first.
NewestFirstWitness ==
    /\ EmptyLog(appends.initial)
    /\ Len(appends.calls) = MAX_EVENTS
    /\ {appends.calls[i].event.variant : i \in 1..MAX_EVENTS} = SeqToSet(Variants)
    /\ Len(rewrite_file.lines) = MAX_EVENTS
    /\ from_str(rewrite_file.lines[1]) = appends.calls[MAX_EVENTS].event
    /\ from_str(rewrite_file.lines[MAX_EVENTS]) = appends.calls[1].event

\* A line that is not blank and is no event.
IsMalformed(line) == ~IsBlank(line) /\ from_str(line) = NoEvent
HasMalformed(file) == \E i \in 1..Len(file.lines) : IsMalformed(file.lines[i])

\* C25: reading gives exactly the events of the lines that parse, in the
\* order of the file; and an append to a file with malformed lines succeeds
\* and keeps the new event and the events of the file, up to MAX_EVENTS.
MalformedLinesTolerated ==
    /\ read_to_string(rewrite_file).ok =>
           deserialize_events_from_jsonl(rewrite_file.lines) =
               WellFormedEvents(rewrite_file.lines)
    /\ (appends.calls # <<>> /\ HasMalformed(appends.before)) =>
           /\ appends.calls[Len(appends.calls)].result = Ok
           /\ WellFormedEvents(rewrite_file.lines) =
                  truncate(<<appends.calls[Len(appends.calls)].event>>
                               \o WellFormedEvents(appends.before.lines), MAX_EVENTS)

\* C26: when two processes have appended concurrently, the file has no
\* line that is not an event, and its events are the event of the process
\* that wrote last, then possibly the event of the other, then every event
\* that was in the log before.
LastWriterWins ==
    (\A p \in Writers : writers[p].pc = "done" /\ writers[p].result = Ok) =>
        LET before == WellFormedEvents(appends.initial.lines)
            last_event == writers[appends.last_writer].event
            other_event == writers[CHOOSE p \in Writers : p # appends.last_writer].event
        IN  /\ \A i \in 1..Len(rewrite_file.lines) : from_str(rewrite_file.lines[i]) # NoEvent
            /\ WellFormedEvents(rewrite_file.lines)
                   \in {<<last_event>> \o before, <<last_event, other_event>> \o before}

\* C27: Repository::commit with update_ref moves the ref only when it
\* pointed at the first parent at the moment of the update, or creates it;
\* when the ref exists at the check with another tip or without parents
\* given, or does not point any more at what the check saw when the update
\* comes, commit returns an error and the ref is as the call found it last.
CommitCompareAndSwap ==
    (committer.pc = "done" /\ committer.update_ref) =>
        /\ committer.result = Ok =>
               /\ ref_tip = committer.new_commit
               /\ committer.tip_at_update \in {Initial, FirstParent(committer.parents)}
        /\ (\/ check_old_tip(committer.old_tip, committer.parents) # Ok
            \/ committer.tip_at_update # committer.old_tip) =>
               /\ committer.result # Ok
               /\ ref_tip = committer.tip_after
               /\ ref_tip # committer.new_commit

\* ------------------------------------------------------- diff_added_lines
\* The new-side lines the hunks of a file name.
AddedLines(fd) ==
    UNION {fd.hunks[k].start .. (fd.hunks[k].start + fd.hunks[k].count - 1) :
             k \in 1..Len(fd.hunks)}
FilesWithAddedLines(diff) ==
    {k \in 1..Len(diff) : diff[k].kind # "deleted" /\ AddedLines(diff[k]) # {}}

\* C28: the map diff_added_lines returns has a key for exactly the files
\* with at least one added line, deleted files have none, and the list of a
\* file is the sorted list, without duplicates, of the new-side lines of
\* that file's hunks.
DiffAddedLinesExact ==
    parser.pc = "done" =>
        /\ DOMAIN parser.result =
              {parser.diff[k].path : k \in FilesWithAddedLines(parser.diff)}
        /\ \A k \in FilesWithAddedLines(parser.diff) :
              parser.result[parser.diff[k].path] =
                 SetToSortedSeq(AddedLines(parser.diff[k]))

\* ---------------------------------------------- get_commit_default_author
\* The call went through the environment and the configuration.
AuthorFromSources == author_call.pc = "done" /\ ~author_call.resolved_author.set

\* C29 as stated: when EMAIL is set and GIT_AUTHOR_EMAIL is not, the email
\* of the author is the value of EMAIL, even if user.email is configured.
EmailVariableBeforeConfig ==
    /\ AuthorFromSources
    /\ NotBlank(author_call.env.EMAIL).set
    /\ ~NotBlank(author_call.env.GIT_AUTHOR_EMAIL).set
    => author_call.author_email = NotBlank(author_call.env.EMAIL)

\* C29 amended: the name is that of the first of GIT_AUTHOR_NAME, user.name
\* and the part of EMAIL before '@' to supply one, the email that of the
\* first of GIT_AUTHOR_EMAIL, user.email and EMAIL: the configuration comes
\* before EMAIL.
ConfigBeforeEmailVariable ==
    AuthorFromSources =>
        /\ author_call.author_name =
              OrElse(NotBlank(author_call.env.GIT_AUTHOR_NAME),
                  OrElse(NotBlank(author_call.config.user_name),
                         NamePart(author_call.env.EMAIL)))
        /\ author_call.author_email =
              OrElse(NotBlank(author_call.env.GIT_AUTHOR_EMAIL),
                  OrElse(NotBlank(author_call.config.user_email),
                         NotBlank(author_call.env.EMAIL)))
        /\ author_call.result =
              FormatAuthor(author_call.author_name, author_call.author_email)

\* EMAIL is set, GIT_AUTHOR_EMAIL is not and user.email is configured.
ConfigBeforeEmailVariableWitness ==
    /\ AuthorFromSources
    /\ NotBlank(author_call.env.EMAIL).set
    /\ ~NotBlank(author_call.env.GIT_AUTHOR_EMAIL).set
    /\ NotBlank(author_call.config.user_email).set
    /\ author_call.author_email = NotBlank(author_call.config.user_email)

\* ------------------------------------------------------------ proxy_to_git
\* C30: every one of the four signals delivered to the wrapper while a git
\* child in a process group of its own is alive is forwarded to that
\* group, and the child is never left running by a wrapper that has died.
SignalAlwaysForwarded ==
    proxy.setpgid =>
        /\ proxy.unforwarded = 0
        /\ ~(proxy.wrapper = "killed" /\ proxy.child = "alive")

\* -------------------------------------------------------------- git rebase
\* The lines a note attests, in the order of the file: the text of each and
\* the AI it is attested to.
RECURSIVE AttestedFrom(_, _, _)
AttestedFrom(content, note, j) ==
    IF j > Len(content) THEN <<>>
    ELSE (IF note[j] # Human THEN <<[text |-> content[j], author |-> note[j]]>> ELSE <<>>)
         \o AttestedFrom(content, note, j + 1)

\* The note of the last of the commits a new commit was rewritten from with
\* the attestations of the others added: the union of their notes.
UnionNote(new) ==
    LET latest == rebase.originals[CHOOSE i \in new.from : \A k \in new.from : k <= i]
    IN  [j \in 1..Len(latest.content) |->
            IF \E i \in new.from : j <= Len(rebase.originals[i].note)
                                    /\ rebase.originals[i].note[j] # Human
            THEN rebase.originals[
                    CHOOSE i \in new.from : j <= Len(rebase.originals[i].note)
                                            /\ rebase.originals[i].note[j] # Human].note[j]
            ELSE Human]
LastContent(new) ==
    rebase.originals[CHOOSE i \in new.from : \A k \in new.from : k <= i].content

\* C22: after a rebase without conflicts every rewritten commit has a note
\* that attests the same lines to the same AI as the note of the commit it
\* was rewritten from, for a squashed commit as the union of the notes: the
\* same lines of text in the same order, and the same line numbers when the
\* commits rebased onto leave the file alone.
RebaseKeepsAttestations ==
    rebase.pc = "done" =>
        \A j \in 1..Len(rebase.rewritten) :
            LET new == rebase.rewritten[j]
            IN  /\ new.present
                /\ AttestedFrom(new.content, new.note, 1)
                      = AttestedFrom(LastContent(new), UnionNote(new), 1)
                /\ rebase.onto = <<>> => new.note = UnionNote(new)

\* A rebase onto commits that add a line in front of the file: the lines
\* attested have moved.
RebaseKeepsAttestationsWitness ==
    /\ rebase.pc = "done"
    /\ rebase.onto # <<>>
    /\ Len(rebase.originals) > 1
    /\ \E j \in 1..Len(rebase.rewritten) : \E i \in 1..Len(rebase.rewritten[j].note) :
          rebase.rewritten[j].note[i] # Human

\* ------------------------------------------------- commit coordinates
\* The commit line of the working-tree line w of a file: w less the
\* unstaged lines before it.
CommitLine(file, w) ==
    w - Cardinality({u \in last.projection.unstaged_hunks[file] : u < w})

\* C31: every line the note attests is at least 1 and is the commit line
\* w - |{u in U : u < w}| of a working-tree line w of the same attestation
\* that is not itself unstaged: unstaged lines are dropped and none takes
\* the number of a committed line.
UnstagedLinesDropped ==
    Committed =>
        \A file \in Files :
            LET att == last.projection.attestations[file]
                U == last.projection.unstaged_hunks[file]
            IN  \A k \in 1..Len(att) :
                    \A n \in RangeLines(att[k].line_ranges) :
                        /\ n >= 1
                        /\ \E w \in AttLines(last.projection.raw[file], att[k].hash) \ U :
                              CommitLine(file, w) = n

\* ------------------------------------------ post_commit, call by call
\* C32: the parent's working log is deleted last: when it is deleted the
\* note has been written and, in the hand-off, every checkpoint with entries
\* left has been appended to the new working log; when post_commit returns
\* an error of notes_add or of an append, the parent's working log has not
\* been deleted.
ParentLogDeletedLast ==
    /\ ~commit_run.parent_exists /\ commit_run.pc # "idle" =>
          /\ commit_run.deleted_after.note
          /\ commit_run.has_unstaged_ai_lines =>
                commit_run.deleted_after.appended = Surviving(commit_run.parent_before)
    /\ commit_run.failed \in {"notes_add", "append"} =>
          /\ commit_run.result = "error"
          /\ commit_run.parent_exists

\* A hand-off that appended a checkpoint and then deleted the parent's log.
ParentLogDeletedLastWitness ==
    /\ commit_run.pc = "done" /\ commit_run.result = Ok
    /\ commit_run.has_unstaged_ai_lines
    /\ commit_run.appended # <<>>
    /\ ~commit_run.parent_exists

\* ---------------------------------------------------------------------
\* The working-log entries post_commit builds the authorship log from.

\* list_commit_files(commit_sha): the files whose content in the commit
\* differs from the one in its first parent (the empty tree without parent).
list_commit_files(commit_sha, base_commit) ==
    {file \in Files : tree[commit_sha][file] # TreeOf(base_commit)[file]}

\* The files of the commit's tree, and those its first parent did not have.
TrackedOrNew(commit_sha, base_commit) ==
    {file \in Files : tree[commit_sha][file] # <<>> \/ TreeOf(base_commit)[file] = <<>>}

\* C33 as stated: after a commit, the entries the authorship log was built
\* from are those entries of the parent's working log whose file is among
\* the files changed by the commit.
EntriesOfChangedFilesKept ==
    Committed =>
        \A file \in Files :
            EntriesOf(last.projection.filtered_working_log, file) =
                IF file \in list_commit_files(last.sha, last.base)
                THEN EntriesOf(last.parent_log, file) ELSE <<>>

\* C33 amended: after a commit, the entries the authorship log was built
\* from are those entries of the parent's working log whose file is in the
\* commit's tree or was not in the tree of the commit's first parent; the
\* entries of a file the commit removed are dropped, those of a file the
\* commit left unchanged are kept.
EntriesOfTrackedFilesKept ==
    Committed =>
        \A file \in Files :
            EntriesOf(last.projection.filtered_working_log, file) =
                IF file \in TrackedOrNew(last.sha, last.base)
                THEN EntriesOf(last.parent_log, file) ELSE <<>>

\* A commit that removed a file with entries and left another one with
\* entries unchanged.
EntriesOfTrackedFilesKeptWitness ==
    /\ Committed
    /\ \E file \in Files \ TrackedOrNew(last.sha, last.base) :
          HasEntry(last.parent_log, file)
    /\ \E file \in Files \ list_commit_files(last.sha, last.base) :
          HasEntry(last.parent_log, file)

\* ---------------------------------------------------------------------
\* The gaps of the previous attributions.

\* The (author, timestamp) pairs of the attributions that cover byte b.
Covering(attrs, b) ==
    {<<attrs[i].author_id, attrs[i].timestamp>> :
        i \in {k \in 1..Len(attrs) : attrs[k].start <= b /\ b < attrs[k].end}}

\* C34 (T5): after a checkpoint of a file at time t, every byte of a line
\* that the line diff carries over from the previous content is covered by
\* (Human, t - 1) alone when no previous attribution covered it, and by the
\* authors and timestamps of the previous attributions that covered it
\* otherwise.
T5GapsToHumanBefore ==
    tracker.steps > 0 =>
        LET old == tracker.old_content
            new == tracker.content
            m == DiffMatch(old, new)
        IN  \A j \in 1..Len(new) :
                m[j] # 0 =>
                    \A k \in 0..(LineLen(new[j]) - 1) :
                        Covering(tracker.entry.attributions, LineStart(new, j) + k) =
                            IF Covered(tracker.old_attrs, LineStart(old, m[j]) + k)
                            THEN Covering(tracker.old_attrs, LineStart(old, m[j]) + k)
                            ELSE {<<Human, tracker.ts - 1>>}

\* A checkpoint by an agent that adds a line and carries over a line no
\* attribution covered, which the human now has at the time before.
T5GapsToHumanBeforeWitness ==
    /\ tracker.steps > 0
    /\ tracker.author = "ai2"
    /\ LET old == tracker.old_content
           new == tracker.content
           m == DiffMatch(old, new)
       IN  \E j \in 1..Len(new) :
            /\ m[j] # 0
            /\ ~Covered(tracker.old_attrs, LineStart(old, m[j]))
            /\ Covering(tracker.entry.attributions, LineStart(new, j)) =
                    {<<Human, tracker.ts - 1>>}
            /\ \E i \in 1..Len(new) : m[i] = 0

\* ---------------------------------------------------------------------
\* The files of a checkpoint run.

\* The files that had an entry in the working log the run found.
KnownFiles == {file \in Files : HasEntry(ran.logs_before[ran.base], file)}

AppendedToOlder ==
    /\ ran.op = "checkpoint" /\ ran.result = Ok /\ ~ran.reset
    /\ ran.logs_before[ran.base] # <<>>
    /\ Len(ran.logs_after[ran.base]) = Len(ran.logs_before[ran.base]) + 1
LastAppended == <<ran.logs_after[ran.base][Len(ran.logs_after[ran.base])]>>

\* C36: in a checkpoint that is not the first of its working log, a file
\* with an earlier entry has a new entry exactly when its content differs
\* from the snapshot of its latest entry, and in the new entry of a file
\* without earlier entry no line that the diff against HEAD carries over is
\* attributed to the agent of the checkpoint, unless HEAD had it from that
\* agent.
PreviousContentSnapshotOrHead ==
    AppendedToOlder =>
        \A file \in ran.files :
            IF HasEntry(ran.logs_before[ran.base], file)
            THEN HasEntry(LastAppended, file) <=>
                    ran.workdir[file] #
                        get_file_version(ran.blobs_after[ran.base],
                            LatestEntry(ran.logs_before[ran.base], file).blob_sha)
            ELSE (HasEntry(LastAppended, file) /\ ran.author # Human) =>
                    LET m == DiffMatch(TreeOf(ran.base)[file], ran.workdir[file])
                    IN  \A j \in 1..Len(ran.workdir[file]) :
                            (m[j] # 0 /\ blame(ran.base, file)[m[j]] # ran.author) =>
                                \A k \in 1..Len(LatestEntry(LastAppended, file).line_attributions) :
                                    LET la == LatestEntry(LastAppended, file).line_attributions[k]
                                    IN  la.author_id = ran.author =>
                                            ~(la.start_line <= j /\ j <= la.end_line)

\* ---------------------------------------------------------------------
\* The order of the checkpoints of a working log.

\* C37: in every working log, each checkpoint's timestamp is greater than or
\* equal to the timestamp of the checkpoint stored before it.
TimestampsMonotonic ==
    \A b \in Bases :
        \A i \in 1..(Len(logs[b]) - 1) :
            logs[b][i].timestamp <= logs[b][i + 1].timestamp

\* ---------------------------------------------------------------------
\* Checkpoints without entries.

PreservingResetDone ==
    /\ wrapper.command = "reset"
    /\ wrapper.pc = "exit"
    /\ wrapper.child = "exit0"
    /\ wrapper.args.mode # "hard"
    /\ GitPathspecs(wrapper.args) = <<>>

\* C39: after a reset without --hard and without pathspec, to the commit
\* HEAD was at no working log has changed, and to a commit that is not an
\* ancestor of the old HEAD the working log of the old HEAD is gone and
\* every other working log is as it was.
ResetRebuildsOnlyBackward ==
    PreservingResetDone =>
        LET old_head == wrapper.pre_command_base_commit
            target == wrapper.target
        IN  /\ target = old_head => logs = wrapper.before.logs
            /\ (target # old_head /\ ~is_ancestor(target, old_head)) =>
                    logs = [wrapper.before.logs EXCEPT ![old_head] = <<>>]

\* ---------------------------------------------------------------------
\* The remote of the authorship notes after a push.

\* C40: after a successful push with no remote in its arguments, from a
\* branch without upstream in a repository without remotes, the hook has
\* selected no remote and has not pushed the authorship notes.
NoRemoteNoNotesPush ==
    (/\ push_run.pc = "done"
     /\ push_run.exit_success
     /\ ~extract_remote_from_push_args(push_run.command_args, <<>>).some
     /\ ~push_run.upstream.some
     /\ push_run.configured = <<>>) =>
        /\ ~push_run.remote.some
        /\ push_run.pushed = <<>>

====
